---- MODULE Spec2Model ----
(***************************************************************************)
(* Model of micromanubot's reference and figure reconciliation:            *)
(*   Bibliography.reconcile_citations / pull_doi_references  (cite.py)     *)
(*   FiguresCache.__add__ / ManuscriptFigures.reconcile_figures            *)
(*   / cache_url_figures                                     (figures.py)  *)
(* Strings are modelled as sequences of one-character strings so that      *)
(* lstrip/strip, sorting and substring tests are computed, not assumed.    *)
(***************************************************************************)
EXTENDS Integers, Sequences, FiniteSets, TLC

VARIABLES
    \* ---- Bibliography (cite.py) ----
    bibCacheFile,       \* entries of .umb/citations_cache.bib on disk
    manual,             \* self.manual: entries of content/manual_references.bib
    cache,              \* self.cache: the in-memory cache library
    unique_keys,        \* self.unique_keys: citation keys observed in the sections
    output,             \* the library reconcile_citations builds
    references_to_pull, \* list of stripped keys queued for doi.org
    missing_keys,       \* list of keys found in no source
    results,            \* pull_doi_references: entries fetched so far
    requests,           \* log of the requests sent to doi.org in this call
    bibWrites,          \* number of times this call rewrote the cache file
    pc,                 \* position of reconcile_citations
    error,              \* the error the call raised ("none" if none)
    build,              \* "first", or "again" for the build run after it
    prevBib             \* what the previous build's reconcile_citations left

VARIABLES
    \* ---- ManuscriptFigures (figures.py) ----
    files,              \* the project's files: path -> what the file holds
    figCacheFile,       \* FigureSpecs of .umb/figures_cache.json on disk
    figCache,           \* self.cache.figures: the in-memory FiguresCache
    reference_to_alias, \* self.reference_to_alias, as (ref, alias) pairs in dict order
    to_download,        \* list of FigureSpecs queued for download
    missing,            \* list of references found in no source
    fetched,            \* cache_url_figures: number of figures fetched so far
    figRequests,        \* log of the URLs requested in this call
    copies,             \* the shutil.copy calls of this call, as (src, dst)
    figWrites,          \* number of times this call rewrote figures_cache.json
    fpc,                \* position of reconcile_figures
    ferror,             \* the error the call raised ("none" if none)
    fbuild,             \* "first", or "again" for the build run after it
    prevFig             \* what the previous build's reconcile_figures left

VARIABLES
    \* ---- FiguresCache.__add__ on its own ----
    mergeSelf, mergeOther, mergeResult, mpc

bibVars == <<bibCacheFile, manual, cache, unique_keys, output, references_to_pull,
             missing_keys, results, requests, bibWrites, pc, error, build, prevBib>>

figVars == <<files, figCacheFile, figCache, reference_to_alias, to_download, missing,
             fetched, figRequests, copies, figWrites, fpc, ferror, fbuild, prevFig>>

mergeVars == <<mergeSelf, mergeOther, mergeResult, mpc>>

VARIABLES
    \* ---- ManuscriptSection (build.py) ----
    nodelist,           \* the top-level nodes pylatexenc returns for the section
    raw_content,        \* self.raw_content
    fmt_content,        \* self.fmt_content (None until processed)
    spc,                \* position of ManuscriptSection.process
    serror              \* the error process raised ("none" if none)

VARIABLES
    \* ---- build_latex's section loop and MainTemplate (build.py) ----
    content_dir,        \* names of the files of root_dir/content
    cwd_supplement,     \* whether content/supplement.tex exists under the cwd
    built_main_files,   \* names appended to built_main_files, in order
    build_written,      \* names of the files written to root_dir/build
    build_log,          \* the calls build_latex has made, in order
    tpl_raw,            \* MainTemplate.raw_content
    templates,          \* MainTemplate.templates
    tpl_fmt,            \* MainTemplate.fmt_content (None until processed)
    tpc,                \* position of the build
    terror              \* the error raised ("none" if none)

VARIABLES
    \* ---- pull_doi_references against the clock ----
    lim_latency,        \* milliseconds one fetch takes in this call
    lim_clock,          \* milliseconds since the call began
    lim_bucket,         \* times of the tokens acquired within the last second
    lim_done,           \* number of keys fetched so far
    lim_waited,         \* the longest the limiter slept in this call
    lpc,                \* position of the call
    lerror              \* the error raised ("none" if none)

VARIABLES
    \* ---- MainTemplate.format_metadata (build.py) ----
    authors,            \* metadata.authors
    meta_affils,        \* affil_to_idx, as (affil, idx) pairs in dict order
    meta_output,        \* the text format_metadata returns (None until it has)
    mdpc                \* position of format_metadata

VARIABLES
    fetch_error_names   \* the key or URL a fetch error's message names

scanVars == <<nodelist, raw_content, fmt_content, spc, serror>>

tplVars == <<content_dir, cwd_supplement, built_main_files, build_written, build_log, tpl_raw,
             templates, tpl_fmt, tpc, terror>>

limVars == <<lim_latency, lim_clock, lim_bucket, lim_done, lim_waited, lpc, lerror>>

metaVars == <<authors, meta_affils, meta_output, mdpc>>

restVars == <<scanVars, tplVars, limVars, metaVars, fetch_error_names>>

vars == <<bibVars, figVars, mergeVars, restVars>>

(***************************************************************************)
(* Bounds                                                                  *)
(***************************************************************************)
MaxKeyLen == 3      \* longest citation key, in characters
MaxKeys == 2        \* most citation keys observed in one manuscript
MaxRefs == 2        \* most figure references observed in one manuscript
MaxCiteKeys == 2    \* most keys in one \cite macro
MaxTemplateLines == 5   \* most lines of a template
NKeys == 60         \* keys handed to one call of pull_doi_references
MaxAuthors == 2     \* most authors of a manuscript
MaxAffils == 2      \* most affiliations one author lists

(***************************************************************************)
(* Strings                                                                 *)
(***************************************************************************)
Alphabet == {"@", "a", " "}

\* Code point order of the characters used (Python compares str by code point).
Ord(c) == CASE c = " " -> 32 [] c = "@" -> 64 [] OTHER -> 97

Strings(n) == UNION {[1..m -> Alphabet] : m \in 0..n}

\* str.lstrip(chars): drop the leading run of characters in chars.
RECURSIVE lstrip(_, _)
lstrip(s, chars) ==
    IF s # <<>> /\ Head(s) \in chars THEN lstrip(Tail(s), chars) ELSE s

\* str.rstrip(chars)
RECURSIVE rstrip(_, _)
rstrip(s, chars) ==
    IF s # <<>> /\ s[Len(s)] \in chars THEN rstrip(SubSeq(s, 1, Len(s) - 1), chars) ELSE s

Whitespace == {" "}

\* str.strip(): drop leading and trailing whitespace.
strip(s) == rstrip(lstrip(s, Whitespace), Whitespace)

\* "@" in key
Contains(s, c) == \E i \in 1..Len(s) : s[i] = c

\* s < t in Python's string order (lexicographic by code point).
RECURSIVE StrLess(_, _)
StrLess(s, t) ==
    IF t = <<>> THEN FALSE
    ELSE IF s = <<>> THEN TRUE
    ELSE IF Head(s) # Head(t) THEN Ord(Head(s)) < Ord(Head(t))
    ELSE StrLess(Tail(s), Tail(t))

\* sorted(S) for a set of strings.
RECURSIVE sorted(_)
sorted(S) ==
    IF S = {} THEN <<>>
    ELSE LET m == CHOOSE x \in S : \A y \in S \ {x} : StrLess(x, y)
         IN <<m>> \o sorted(S \ {m})

Range(f) == {f[i] : i \in DOMAIN f}

\* The subsets of U with at most n elements.
RECURSIVE SubsetsUpTo(_, _)
SubsetsUpTo(U, n) ==
    IF n = 0 THEN {{}}
    ELSE LET P == SubsetsUpTo(U, n - 1) IN P \cup {S \cup {x} : S \in P, x \in U}

\* Keys as extract_keys yields them: each piece of the split is strip()ped.
\* The manuscripts considered write no blank inside a key.
KeyUniverse == {k \in {strip(s) : s \in Strings(MaxKeyLen)} : ~Contains(k, " ")}

(***************************************************************************)
(* Bibliography (cite.py)                                                  *)
(***************************************************************************)
\* Keys under which the cache file and the manual file may hold an entry.
StoredKeys == {<<"a">>}

\* A BibTeX entry: its key and where its body came from.
BibEntry(k, b) == [key |-> k, body |-> b]

LibraryOf(keys, b) == {BibEntry(k, b) : k \in keys}

\* Library.entries_dict.keys()
entries_keys(lib) == {e.key : e \in lib}

\* Library.entries_dict[k]
entries_dict(lib, k) == CHOOSE e \in lib : e.key = k

\* Library.add(block): a block whose key the library already holds is kept as
\* a duplicate-key block, not as an entry; the first entry stays.
LibraryAdd(lib, e) == IF e.key \in entries_keys(lib) THEN lib ELSE lib \cup {e}

\* Library.add(list of blocks)
RECURSIVE LibraryAddAll(_, _)
LibraryAddAll(lib, es) ==
    IF es = <<>> THEN lib ELSE LibraryAddAll(LibraryAdd(lib, Head(es)), Tail(es))

\* stripped = key.lstrip("@").strip()
stripped_of(key) == strip(lstrip(key, {"@"}))

\* classify_key with the lookup in manual left out for keys holding the marker.
classify_key_cache_only(acc, key) ==
    LET cache_keys == entries_keys(cache)
        manual_keys == entries_keys(manual)
        stripped == stripped_of(key)
    IN  IF Contains(key, "@")
        THEN IF stripped \in cache_keys
             THEN [acc EXCEPT !.output = LibraryAdd(@, entries_dict(cache, stripped))]
             ELSE [acc EXCEPT !.references_to_pull = Append(@, stripped)]
        ELSE IF key \in manual_keys
        THEN [acc EXCEPT !.output = LibraryAdd(@, entries_dict(manual, key))]
        ELSE IF key \in cache_keys
        THEN [acc EXCEPT !.output = LibraryAdd(@, entries_dict(cache, key))]
        ELSE [acc EXCEPT !.missing_keys = Append(@, key)]

\* One iteration of the loop of reconcile_citations over sorted(unique_keys).
classify_key(acc, key) ==
    LET cache_keys == entries_keys(cache)
        manual_keys == entries_keys(manual)
        stripped == stripped_of(key)
    IN  IF Contains(key, "@")
        THEN IF stripped \in cache_keys
             THEN [acc EXCEPT !.output = LibraryAdd(@, entries_dict(cache, stripped))]
             ELSE IF stripped \in manual_keys
             THEN [acc EXCEPT !.output = LibraryAdd(@, entries_dict(manual, stripped))]
             ELSE [acc EXCEPT !.references_to_pull = Append(@, stripped)]
        ELSE IF key \in manual_keys
        THEN [acc EXCEPT !.output = LibraryAdd(@, entries_dict(manual, key))]
        ELSE IF key \in cache_keys
        THEN [acc EXCEPT !.output = LibraryAdd(@, entries_dict(cache, key))]
        ELSE [acc EXCEPT !.missing_keys = Append(@, key)]

RECURSIVE classify_loop(_, _)
classify_loop(acc, keys) ==
    IF keys = <<>> THEN acc ELSE classify_loop(classify_key(acc, Head(keys)), Tail(keys))

classified ==
    classify_loop([output |-> {}, references_to_pull |-> <<>>, missing_keys |-> <<>>],
                  sorted(unique_keys))

\* prevBib when no build came before.
NoPrev == [ok |-> FALSE, output |-> {}, cacheFile |-> {}]

BibIdle ==
    /\ bibCacheFile = {} /\ manual = {} /\ cache = {} /\ unique_keys = {}
    /\ output = {} /\ references_to_pull = <<>> /\ missing_keys = <<>>
    /\ results = <<>> /\ requests = <<>> /\ bibWrites = 0
    /\ pc = "off" /\ error = "none" /\ build = "first" /\ prevBib = NoPrev

\* The state after Bibliography.__init__ and the scan of the sections.
BibStart ==
    /\ \E ck \in SUBSET StoredKeys : bibCacheFile = LibraryOf(ck, "cached")
    /\ \E mk \in SUBSET StoredKeys : manual = LibraryOf(mk, "manual")
    /\ cache = bibCacheFile
    /\ unique_keys \in SubsetsUpTo(KeyUniverse, MaxKeys)
    /\ output = {}
    /\ references_to_pull = <<>>
    /\ missing_keys = <<>>
    /\ results = <<>>
    /\ requests = <<>>
    /\ bibWrites = 0
    /\ pc = "ready"
    /\ error = "none"
    /\ build = "first"
    /\ prevBib = NoPrev

\* reconcile_citations up to the call of pull_doi_references: the loop over
\* the observed keys and the check of missing_keys.
reconcile_citations ==
    /\ pc = "ready"
    /\ output' = classified.output
    /\ references_to_pull' = classified.references_to_pull
    /\ missing_keys' = classified.missing_keys
    /\ IF classified.missing_keys # <<>>
       THEN pc' = "failed" /\ error' = "missing"
       ELSE IF classified.references_to_pull # <<>>
       THEN pc' = "pulling" /\ error' = "none"
       ELSE pc' = "done" /\ error' = "none"
    /\ UNCHANGED <<bibCacheFile, manual, cache, unique_keys, results, requests,
                   bibWrites, build, prevBib>>
    /\ UNCHANGED <<figVars, mergeVars, restVars>>

\* The key pull_doi_references handles next.
next_key == references_to_pull[Len(results) + 1]

\* limiter.try_acquire(key) raises LimiterDelayException.
pull_rate_limited ==
    /\ pc = "pulling" /\ Len(results) < Len(references_to_pull)
    /\ pc' = "failed" /\ error' = "rate"
    /\ UNCHANGED <<bibCacheFile, manual, cache, unique_keys, output, references_to_pull,
                   missing_keys, results, requests, bibWrites, build, prevBib>>
    /\ UNCHANGED <<figVars, mergeVars, restVars>>

\* fetch_doi_reference(key) raises (requests.get fails, or raise_for_status on a
\* non-success status): the except clause turns either into
\* ValueError(f"Failed to fetch reference for {key}").
pull_fetch_failed ==
    /\ pc = "pulling" /\ Len(results) < Len(references_to_pull)
    /\ requests' = Append(requests, next_key)
    /\ pc' = "failed" /\ error' = "fetch"
    /\ fetch_error_names' = next_key
    /\ UNCHANGED <<bibCacheFile, manual, cache, unique_keys, output, references_to_pull,
                   missing_keys, results, bibWrites, build, prevBib>>
    /\ UNCHANGED <<figVars, mergeVars, scanVars, tplVars, limVars, metaVars>>

\* The entry a successful fetch for key yields: entry.key = key.
fetched_entry(key) == BibEntry(key, "doi")

\* pull_doi_references writing each entry to the cache file as soon as it is
\* fetched: a plausible slip.
pull_fetch_ok_persisting ==
    /\ pc = "pulling" /\ Len(results) < Len(references_to_pull)
    /\ requests' = Append(requests, next_key)
    /\ results' = Append(results, fetched_entry(next_key))
    /\ cache' = LibraryAdd(cache, fetched_entry(next_key))
    /\ bibCacheFile' = cache'
    /\ UNCHANGED <<manual, unique_keys, output, references_to_pull,
                   missing_keys, bibWrites, pc, error, build, prevBib>>
    /\ UNCHANGED <<figVars, mergeVars, restVars>>

\* fetch_doi_reference(key) succeeds.
pull_fetch_ok ==
    /\ pc = "pulling" /\ Len(results) < Len(references_to_pull)
    /\ requests' = Append(requests, next_key)
    /\ results' = Append(results, fetched_entry(next_key))
    /\ UNCHANGED <<bibCacheFile, manual, cache, unique_keys, output, references_to_pull,
                   missing_keys, bibWrites, pc, error, build, prevBib>>
    /\ UNCHANGED <<figVars, mergeVars, restVars>>

\* pull_doi_references returned: add the new entries to output and cache and
\* write the cache file.
reconcile_citations_store ==
    /\ pc = "pulling" /\ Len(results) = Len(references_to_pull)
    /\ output' = LibraryAddAll(output, results)
    /\ cache' = LibraryAddAll(cache, results)
    /\ bibCacheFile' = cache'
    /\ bibWrites' = bibWrites + 1
    /\ pc' = "done"
    /\ UNCHANGED <<manual, unique_keys, references_to_pull, missing_keys, results,
                   requests, error, build, prevBib>>
    /\ UNCHANGED <<figVars, mergeVars, restVars>>

\* The next build of the same manuscript after a successful one: a new
\* Bibliography is constructed from the cache file and the same keys are
\* observed.  (A failed reconcile_citations leaves the cache file as it was,
\* so the build after it starts in one of the states of BibStart.)
next_build_bib ==
    /\ pc = "done"
    /\ build = "first"
    /\ build' = "again"
    /\ prevBib' = [ok |-> TRUE, output |-> output, cacheFile |-> bibCacheFile]
    /\ cache' = bibCacheFile
    /\ output' = {}
    /\ references_to_pull' = <<>>
    /\ missing_keys' = <<>>
    /\ results' = <<>>
    /\ requests' = <<>>
    /\ bibWrites' = 0
    /\ pc' = "ready"
    /\ error' = "none"
    /\ UNCHANGED <<bibCacheFile, manual, unique_keys>>
    /\ UNCHANGED <<figVars, mergeVars, restVars>>

(***************************************************************************)
(* Figures (figures.py).  A path or URL is the sequence of its segments,   *)
(* the string split at "/": "https://h/d/a.png" is                         *)
(* <<"https:", "", "h", "d", "a.png">>.                                    *)
(***************************************************************************)
\* An unset optional field (url, local_path).
None == <<>>

FigureSpec(old, new, u, lp) ==
    [old_alias |-> old, new_alias |-> new, url |-> u, local_path |-> lp]

\* validators.url(key): scheme://host with an optional path.
validators_url(key) ==
    /\ Len(key) >= 3
    /\ key[1] \in {"http:", "https:"}
    /\ key[2] = ""
    /\ key[3] # ""

\* urllib.parse.urlparse(key).path, as segments
url_path(key) == SubSeq(key, 4, Len(key))

\* urllib.parse.urlparse(url).netloc
netloc(url) == url[3]

\* pathlib.Path(p).name: the last segment, trailing slashes ignored.
RECURSIVE path_name(_)
path_name(p) ==
    IF p = <<>> THEN ""
    ELSE IF p[Len(p)] = "" THEN path_name(SubSeq(p, 1, Len(p) - 1))
    ELSE p[Len(p)]

\* pathlib.Path(key).is_file(), relative to the project root
is_file(fs, key) == key \in DOMAIN fs

\* ManuscriptFigures._get_fig_name; "invalid" stands for the ValueError.
get_fig_name(fs, key) ==
    IF validators_url(key) THEN path_name(url_path(key))
    ELSE IF is_file(fs, key) THEN path_name(key)
    ELSE "invalid"

\* ManuscriptFigures._make_alias: str(Path("images") / filename)
make_alias(fs, key) ==
    LET filename == get_fig_name(fs, key)
    IN  IF filename = "" THEN <<"images">> ELSE <<"images", filename>>

\* self.cache_path = cache_path.joinpath("images"), cache_path being .umb
cache_path == <<".umb", "images">>

\* self.manual_path: content/images
manual_path == <<"content", "images">>

build_dir == <<"build">>

IsUnder(p, dir) == Len(p) > Len(dir) /\ SubSeq(p, 1, Len(dir)) = dir

\* ManuscriptFigures._find_content_images(directory)
find_content_images(fs, directory) ==
    {LET alias == SubSeq(image_path, Len(directory) + 1, Len(image_path))
     IN  FigureSpec(alias, alias, None, image_path) :
        image_path \in {q \in DOMAIN fs : IsUnder(q, directory)
                                          /\ Len(q) = Len(directory) + 1}}

\* __add__ returning the right operand alone.
FiguresCache_add_other_only(self, other) == other

\* FiguresCache.__add__: set(self.figures + other.figures).  FigureSpec hashes
\* on (old_alias, new_alias) but compares equal on all four fields, so the set
\* keeps every spec that differs from the others in any field.
FiguresCache_add(self, other) == self \cup other

\* FiguresCache.alias_to_figure: {figure.old_alias: figure for figure in figures}
alias_to_figure(figures) ==
    [a \in {f.old_alias : f \in figures} |-> CHOOSE f \in figures : f.old_alias = a]

\* open(path, "wb").write / shutil.copy destination
WriteFile(fs, path, content) ==
    [q \in DOMAIN fs \cup {path} |-> IF q = path THEN content ELSE fs[q]]

\* shutil.copy(src, dst)
shutil_copy(fs, src, dst) == WriteFile(fs, dst, fs[src])

\* fig_step testing for a URL before looking the reference up in the cache.
fig_step_url_first(acc, pair) ==
    LET ref == pair[1]
        alias == pair[2]
        a2f == alias_to_figure(figCache)
    IN  IF validators_url(ref)
        THEN [acc EXCEPT !.to_download =
                 Append(@, FigureSpec(ref, alias, ref,
                                      cache_path \o <<get_fig_name(acc.files, ref)>>))]
        ELSE IF ref \in DOMAIN a2f
        THEN IF a2f[ref].local_path = None
             THEN [acc EXCEPT !.missing = Append(@, ref)]
             ELSE [acc EXCEPT
                     !.files = shutil_copy(@, a2f[ref].local_path, build_dir \o alias),
                     !.copies = @ \cup {<<a2f[ref].local_path, build_dir \o alias>>}]
        ELSE [acc EXCEPT !.missing = Append(@, ref)]

\* One iteration of the loop of reconcile_figures over reference_to_alias.items().
fig_step(acc, pair) ==
    LET ref == pair[1]
        alias == pair[2]
        a2f == alias_to_figure(figCache)
    IN  IF ref \in DOMAIN a2f
        THEN IF a2f[ref].local_path = None
             THEN [acc EXCEPT !.missing = Append(@, ref)]
             ELSE [acc EXCEPT
                     !.files = shutil_copy(@, a2f[ref].local_path, build_dir \o alias),
                     !.copies = @ \cup {<<a2f[ref].local_path, build_dir \o alias>>}]
        ELSE IF validators_url(ref)
        THEN [acc EXCEPT !.to_download =
                 Append(@, FigureSpec(ref, alias, ref,
                                      cache_path \o <<get_fig_name(acc.files, ref)>>))]
        ELSE [acc EXCEPT !.missing = Append(@, ref)]

RECURSIVE fig_loop(_, _)
fig_loop(acc, pairs) ==
    IF pairs = <<>> THEN acc ELSE fig_loop(fig_step(acc, Head(pairs)), Tail(pairs))

fig_classified ==
    fig_loop([files |-> files, copies |-> {}, to_download |-> <<>>, missing |-> <<>>],
             reference_to_alias)

\* The sequences of at most n distinct elements of U.
RECURSIVE SeqsUpTo(_, _)
SeqsUpTo(U, n) ==
    IF n = 0 THEN {<<>>}
    ELSE LET P == SeqsUpTo(U, n - 1)
         IN  P \cup {Append(q, x) : q \in P, x \in U}

Distinct(q) == \A i, j \in 1..Len(q) : q[i] = q[j] => i = j

\* The URLs and local paths a manuscript may reference.
UrlRefs == {<<"https:", "", "h", "a.png">>,
            <<"https:", "", "h", "d", "a.png">>,
            <<"https:", "", "github.com", "b.png">>}

LocalRefs == {<<"a.png">>, <<"content", "images", "a.png">>}

RefUniverse == UrlRefs \cup LocalRefs

\* The spec reconcile_figures builds for a URL it downloads.
DownloadSpec(fs, ref) ==
    FigureSpec(ref, make_alias(fs, ref), ref, cache_path \o <<get_fig_name(fs, ref)>>)

\* The file systems a build may start from: local files of the project, and
\* files an earlier build left in .umb/images.
FileSystems ==
    {[q \in L \cup DOMAIN d |-> IF q \in L THEN q ELSE d[q]] :
        L \in SUBSET LocalRefs,
        d \in {g \in UNION {[D -> UrlRefs] : D \in SUBSET {cache_path \o <<"a.png">>,
                                                         cache_path \o <<"b.png">>}} :
                   \A q \in DOMAIN g : path_name(url_path(g[q])) = path_name(q)}}

\* The cache files an earlier build may have left on fs: specs of content
\* images and of downloaded figures whose local file is there, and specs
\* without a local file; one spec per old_alias.
CacheFiles(fs) ==
    {C \in SUBSET (find_content_images(fs, manual_path)
                   \cup {DownloadSpec(fs, u) : u \in UrlRefs}
                   \cup {[DownloadSpec(fs, u) EXCEPT !.local_path = None] : u \in UrlRefs}) :
        /\ \A f, g \in C : f.old_alias = g.old_alias => f = g
        /\ \A f \in C : f.local_path # None => f.local_path \in DOMAIN fs}

\* prevFig when no build came before or the one before failed.
NoPrevFig == [ok |-> FALSE, built |-> <<>>, cacheFile |-> {}]

FigIdle ==
    /\ files = <<>> /\ figCacheFile = {} /\ figCache = {} /\ reference_to_alias = <<>>
    /\ to_download = <<>> /\ missing = <<>> /\ fetched = 0 /\ figRequests = <<>>
    /\ copies = {} /\ figWrites = 0 /\ fpc = "off" /\ ferror = "none"
    /\ fbuild = "first" /\ prevFig = NoPrevFig

\* The state after ManuscriptFigures.__init__ and the scan of the sections:
\* every observed reference passed _make_alias.
FigStart ==
    /\ files \in FileSystems
    /\ figCacheFile \in CacheFiles(files)
    /\ figCache = FiguresCache_add(figCacheFile, find_content_images(files, manual_path))
    /\ \E refs \in SeqsUpTo({r \in RefUniverse : get_fig_name(files, r) # "invalid"},
                            MaxRefs) :
          /\ Distinct(refs)
          /\ reference_to_alias = [i \in 1..Len(refs) |-> <<refs[i], make_alias(files, refs[i])>>]
    /\ to_download = <<>> /\ missing = <<>> /\ fetched = 0 /\ figRequests = <<>>
    /\ copies = {} /\ figWrites = 0 /\ fpc = "ready" /\ ferror = "none"
    /\ fbuild = "first" /\ prevFig = NoPrevFig

\* reconcile_figures up to the call of cache_url_figures: the loop over the
\* observed references, with its copies, and the check of missing.
reconcile_figures ==
    /\ fpc = "ready"
    /\ files' = fig_classified.files
    /\ copies' = fig_classified.copies
    /\ to_download' = fig_classified.to_download
    /\ missing' = fig_classified.missing
    /\ IF fig_classified.missing # <<>>
       THEN fpc' = "failed" /\ ferror' = "missing"
       ELSE IF fig_classified.to_download # <<>>
       THEN fpc' = "downloading" /\ ferror' = "none"
       ELSE fpc' = "done" /\ ferror' = "none"
    /\ UNCHANGED <<figCacheFile, figCache, reference_to_alias, fetched, figRequests,
                   figWrites, fbuild, prevFig>>
    /\ UNCHANGED <<bibVars, mergeVars, restVars>>

\* The figure cache_url_figures handles next.
next_fig == to_download[fetched + 1]

\* fetch_url_figure: the URL requested, "?raw=true" appended for github.com.
request_url(url) == IF netloc(url) = "github.com" THEN url \o <<"?raw=true">> ELSE url

\* limiter.try_acquire(str(fig.url)) raises LimiterDelayException.
fig_rate_limited ==
    /\ fpc = "downloading" /\ fetched < Len(to_download)
    /\ fpc' = "failed" /\ ferror' = "rate"
    /\ UNCHANGED <<files, figCacheFile, figCache, reference_to_alias, to_download, missing,
                   fetched, figRequests, copies, figWrites, fbuild, prevFig>>
    /\ UNCHANGED <<bibVars, mergeVars, restVars>>

\* fetch_url_figure: the status is not 200, so it raises
\* ValueError(f"Failed to fetch figure: {url}"), url being the URL requested.
fig_fetch_failed ==
    /\ fpc = "downloading" /\ fetched < Len(to_download)
    /\ figRequests' = Append(figRequests, request_url(next_fig.url))
    /\ fpc' = "failed" /\ ferror' = "fetch"
    /\ fetch_error_names' = request_url(next_fig.url)
    /\ UNCHANGED <<files, figCacheFile, figCache, reference_to_alias, to_download, missing,
                   fetched, copies, figWrites, fbuild, prevFig>>
    /\ UNCHANGED <<bibVars, mergeVars, scanVars, tplVars, limVars, metaVars>>

\* fetch_url_figure: requests.get itself raises (no connection, timeout).
\* Neither fetch_url_figure nor cache_url_figures catches it, so the
\* requests exception leaves reconcile_figures as it is.
fig_request_raised ==
    /\ fpc = "downloading" /\ fetched < Len(to_download)
    /\ figRequests' = Append(figRequests, request_url(next_fig.url))
    /\ fpc' = "failed" /\ ferror' = "requests"
    /\ UNCHANGED <<files, figCacheFile, figCache, reference_to_alias, to_download, missing,
                   fetched, copies, figWrites, fbuild, prevFig>>
    /\ UNCHANGED <<bibVars, mergeVars, restVars>>

\* fetch_url_figure succeeds: the bytes served for the URL go to fig.local_path.
fig_fetch_ok ==
    /\ fpc = "downloading" /\ fetched < Len(to_download)
    /\ figRequests' = Append(figRequests, request_url(next_fig.url))
    /\ files' = WriteFile(files, next_fig.local_path, next_fig.url)
    /\ fetched' = fetched + 1
    /\ UNCHANGED <<figCacheFile, figCache, reference_to_alias, to_download, missing,
                   copies, figWrites, fpc, ferror, fbuild, prevFig>>
    /\ UNCHANGED <<bibVars, mergeVars, restVars>>

\* for fig in to_download: shutil.copy(fig.local_path, build_dir / fig.new_alias)
RECURSIVE copy_downloads(_, _)
copy_downloads(acc, figs) ==
    IF figs = <<>> THEN acc
    ELSE LET fig == Head(figs)
             dst == build_dir \o fig.new_alias
         IN  copy_downloads([files |-> shutil_copy(acc.files, fig.local_path, dst),
                             copies |-> acc.copies \cup {<<fig.local_path, dst>>}],
                            Tail(figs))

\* cache_url_figures returned: merge the new specs into the cache, write
\* figures_cache.json and copy the downloads to the build directory.
reconcile_figures_store ==
    /\ fpc = "downloading" /\ fetched = Len(to_download)
    /\ figCache' = FiguresCache_add(figCache, Range(to_download))
    /\ figCacheFile' = figCache'
    /\ figWrites' = figWrites + 1
    /\ LET done == copy_downloads([files |-> files, copies |-> copies], to_download)
       IN  files' = done.files /\ copies' = done.copies
    /\ fpc' = "done"
    /\ UNCHANGED <<reference_to_alias, to_download, missing, fetched, figRequests,
                   ferror, fbuild, prevFig>>
    /\ UNCHANGED <<bibVars, mergeVars, restVars>>

\* setup_build_directory: every child of build is removed.
setup_build_directory(fs) == [q \in {r \in DOMAIN fs : ~IsUnder(r, build_dir)} |-> fs[q]]

\* The files of the build directory.
built_files(fs) == [q \in {r \in DOMAIN fs : IsUnder(r, build_dir)} |-> fs[q]]

\* The next build of the same manuscript: the build directory is emptied, a
\* new ManuscriptFigures is constructed and the same references are observed.
next_build_fig ==
    /\ fpc \in {"done", "failed"}
    /\ fbuild = "first"
    /\ fbuild' = "again"
    /\ prevFig' = IF fpc = "done"
                   THEN [ok |-> TRUE, built |-> built_files(files), cacheFile |-> figCacheFile]
                   ELSE NoPrevFig
    /\ files' = setup_build_directory(files)
    /\ figCache' = FiguresCache_add(figCacheFile, find_content_images(files', manual_path))
    /\ to_download' = <<>> /\ missing' = <<>> /\ fetched' = 0 /\ figRequests' = <<>>
    /\ copies' = {} /\ figWrites' = 0 /\ fpc' = "ready" /\ ferror' = "none"
    /\ fetch_error_names' = <<>>
    /\ UNCHANGED <<figCacheFile, reference_to_alias>>
    /\ UNCHANGED <<bibVars, mergeVars, scanVars, tplVars, limVars, metaVars>>

(***************************************************************************)
(* FiguresCache.__add__ applied to two arbitrary caches                    *)
(***************************************************************************)
\* The specs a figures cache may hold: those of CacheFiles, and a spec of a
\* content image recorded when the project lived under another directory.
SpecUniverse ==
    LET fs == [q \in LocalRefs |-> q]
    IN  find_content_images(fs, manual_path)
        \cup {FigureSpec(<<"a.png">>, <<"a.png">>, None, <<"old">> \o manual_path \o <<"a.png">>)}
        \cup {DownloadSpec(fs, u) : u \in {r \in UrlRefs : netloc(r) = "h"}}
        \cup {[DownloadSpec(fs, u) EXCEPT !.local_path = None] : u \in {<<"https:", "", "h", "a.png">>}}

MergeIdle == mergeSelf = {} /\ mergeOther = {} /\ mergeResult = {} /\ mpc = "off"

MergeStart ==
    /\ mergeSelf \in SUBSET SpecUniverse
    /\ mergeOther \in SUBSET SpecUniverse
    /\ mergeResult = {}
    /\ mpc = "ready"

\* result = self + other
merge_caches ==
    /\ mpc = "ready"
    /\ mergeResult' = FiguresCache_add(mergeSelf, mergeOther)
    /\ mpc' = "done"
    /\ UNCHANGED <<mergeSelf, mergeOther>>
    /\ UNCHANGED <<bibVars, figVars, restVars>>

(***************************************************************************)
(* Markup scanning (cite.extract_keys, figures.extract_keys) and            *)
(* ManuscriptSection.process (build.py).  The LaTeX parser is pylatexenc:   *)
(* a section is given by the node list the parser returns for it, each node *)
(* carrying the source text it was parsed from (src).  Text is a sequence   *)
(* of tokens: single characters inside citation keys, and one token per     *)
(* path segment, "/" and piece of markup elsewhere.                         *)
(***************************************************************************)
\* A pylatexenc node.  nodeargd is None or <<ParsedMacroArgs>>; an entry of
\* argnlist is None (argument absent) or <<group node>>.
Node(type, name, chars, nodeargd, nodes, src) ==
    [type |-> type, name |-> name, chars |-> chars, nodeargd |-> nodeargd,
     nodelist |-> nodes, src |-> src]

ParsedMacroArgs(argspec, argnlist) == [argspec |-> argspec, argnlist |-> argnlist]

\* The source text of a node list.
RECURSIVE latex_verbatim(_)
latex_verbatim(nodes) ==
    IF nodes = <<>> THEN <<>> ELSE Head(nodes).src \o latex_verbatim(Tail(nodes))

CharsNode(chars) == Node("chars", "", chars, None, <<>>, chars)

CommentNode == Node("comment", "", <<>>, None, <<>>, <<"%", "\n">>)

GroupNode(nodes) ==
    Node("group", "", <<>>, None, nodes, <<"{">> \o latex_verbatim(nodes) \o <<"}">>)

EnvironmentNode(name, nodes) ==
    Node("environment", name, <<>>, None, nodes,
         <<"\\begin{", name, "}">> \o latex_verbatim(nodes) \o <<"\\end{", name, "}">>)

\* str.index: position of the first c in s.
index(s, c) == CHOOSE i \in 1..Len(s) : s[i] = c /\ \A j \in 1..(i - 1) : s[j] # c

\* str.split(sep): the pieces of s between the separators.
RECURSIVE split(_, _)
split(s, sep) ==
    IF ~Contains(s, sep) THEN <<s>>
    ELSE LET i == index(s, sep)
         IN  <<SubSeq(s, 1, i - 1)>> \o split(SubSeq(s, i + 1, Len(s)), sep)

\* What an extraction returns, or the exception it raises.
Returns(keys) == [error |-> "none", keys |-> keys]

Raises(exception) == [error |-> exception, keys |-> {}]

\* cite.extract_keys without key.strip(): a plausible slip.
cite_extract_keys_unstripped(node) ==
    IF node.nodeargd = None THEN Raises("ValueError")
    ELSE LET argspec == node.nodeargd[1].argspec
             argnlist == node.nodeargd[1].argnlist
         IN  IF ~Contains(argspec, "{") THEN Raises("ValueError")
             ELSE IF Len(argspec) # Len(argnlist) THEN Raises("ValueError")
             ELSE LET key_group == argnlist[index(argspec, "{")]
                  IN  IF key_group = None THEN Raises("AttributeError")
                      ELSE IF Len(key_group[1].nodelist) # 1 THEN Raises("ValueError")
                      ELSE LET key_node == key_group[1].nodelist[1]
                           IN  IF key_node.type # "chars" THEN Raises("AttributeError")
                               ELSE Returns(Range(split(key_node.chars, ",")))

\* cite.extract_keys.  A key group that is None, or a key node that is not a
\* chars node, has no attribute nodelist / chars: AttributeError.
cite_extract_keys(node) ==
    IF node.nodeargd = None THEN Raises("ValueError")
    ELSE LET argspec == node.nodeargd[1].argspec
             argnlist == node.nodeargd[1].argnlist
         IN  IF ~Contains(argspec, "{") THEN Raises("ValueError")
             ELSE IF Len(argspec) # Len(argnlist) THEN Raises("ValueError")
             ELSE LET kw_idx == index(argspec, "{")
                      key_group == argnlist[kw_idx]
                  IN  IF key_group = None THEN Raises("AttributeError")
                      ELSE IF Len(key_group[1].nodelist) # 1 THEN Raises("ValueError")
                      ELSE LET key_node == key_group[1].nodelist[1]
                               citation_keys == split(key_node.chars, ",")
                           IN  IF key_node.type # "chars" THEN Raises("AttributeError")
                               ELSE Returns({strip(key) : key \in Range(citation_keys)})

\* extract_includegraphics_key accepting any non-empty key group: a plausible slip.
extract_includegraphics_key_lenient(node) ==
    IF node.nodeargd = None THEN Raises("ValueError")
    ELSE LET argspec == node.nodeargd[1].argspec
             argnlist == node.nodeargd[1].argnlist
         IN  IF ~Contains(argspec, "{") THEN Raises("ValueError")
             ELSE IF Len(argspec) # Len(argnlist) THEN Raises("ValueError")
             ELSE LET key_group == argnlist[index(argspec, "{")]
                  IN  IF key_group = None THEN Raises("AttributeError")
                      ELSE IF Len(key_group[1].nodelist) = 0 THEN Returns({})
                      ELSE LET key_node == key_group[1].nodelist[1]
                           IN  IF key_node.type # "chars" THEN Raises("AttributeError")
                               ELSE Returns({key_node.chars})

\* figures.extract_includegraphics_key; the key is returned as {key}.
extract_includegraphics_key(node) ==
    IF node.nodeargd = None THEN Raises("ValueError")
    ELSE LET argspec == node.nodeargd[1].argspec
             argnlist == node.nodeargd[1].argnlist
         IN  IF ~Contains(argspec, "{") THEN Raises("ValueError")
             ELSE IF Len(argspec) # Len(argnlist) THEN Raises("ValueError")
             ELSE LET kw_idx == index(argspec, "{")
                      key_group == argnlist[kw_idx]
                  IN  IF key_group = None THEN Raises("AttributeError")
                      ELSE IF Len(key_group[1].nodelist) # 1 THEN Raises("ValueError")
                      ELSE LET key_node == key_group[1].nodelist[1]
                           IN  IF key_node.type # "chars" THEN Raises("AttributeError")
                               ELSE Returns({key_node.chars})

\* figures.extract_keys without the descent into subfigure: a plausible slip.
RECURSIVE fig_extract_keys_flat(_)
fig_extract_keys_flat(nodes) ==
    IF nodes = <<>> THEN Returns({})
    ELSE LET node == Head(nodes)
             own == IF node.type = "macro" /\ node.name = "includegraphics"
                    THEN extract_includegraphics_key(node) ELSE Returns({})
         IN  IF own.error # "none" THEN own
             ELSE LET rest == fig_extract_keys_flat(Tail(nodes))
                  IN  IF rest.error # "none" THEN rest
                      ELSE Returns(own.keys \cup rest.keys)

\* figures.extract_keys(fig_node), given fig_node.nodelist: the loop over the
\* child nodes, the first exception ending it.
RECURSIVE fig_extract_keys(_)
fig_extract_keys(nodes) ==
    IF nodes = <<>> THEN Returns({})
    ELSE LET node == Head(nodes)
             sub == IF node.type = "environment" /\ node.name = "subfigure"
                    THEN fig_extract_keys(node.nodelist) ELSE Returns({})
             own == IF node.type = "macro" /\ node.name = "includegraphics"
                    THEN extract_includegraphics_key(node) ELSE Returns({})
         IN  IF sub.error # "none" THEN sub
             ELSE IF own.error # "none" THEN own
             ELSE LET rest == fig_extract_keys(Tail(nodes))
                  IN  IF rest.error # "none" THEN rest
                      ELSE Returns(sub.keys \cup own.keys \cup rest.keys)

\* str.replace(old, new): every non-overlapping occurrence, left to right.
RECURSIVE str_replace(_, _, _)
str_replace(s, old, new) ==
    IF old = <<>>
    THEN IF s = <<>> THEN new ELSE new \o <<Head(s)>> \o str_replace(Tail(s), old, new)
    ELSE IF Len(s) < Len(old) THEN s
    ELSE IF SubSeq(s, 1, Len(old)) = old
    THEN new \o str_replace(SubSeq(s, Len(old) + 1, Len(s)), old, new)
    ELSE <<Head(s)>> \o str_replace(Tail(s), old, new)

\* The text of a path or URL: its segments joined by "/".
RECURSIVE path_str(_)
path_str(p) ==
    IF p = <<>> THEN <<>>
    ELSE IF Len(p) = 1 THEN p
    ELSE <<Head(p), "/">> \o path_str(Tail(p))

\* The orders in which a set may be iterated.
Perms(S) == {q \in [1..Cardinality(S) -> S] : Range(q) = S}

\* The elements of S in the order they have in ord.
InOrder(S, ord) == SelectSeq(ord, LAMBDA x : x \in S)

\* dict.update with the (key, value) pairs of a list: a key already there keeps
\* its place, a new key goes to the end.
RECURSIVE dict_update(_, _)
dict_update(d, pairs) ==
    IF pairs = <<>> THEN d
    ELSE LET kv == Head(pairs)
             at == {i \in 1..Len(d) : d[i][1] = kv[1]}
         IN  dict_update(IF at = {} THEN Append(d, kv)
                         ELSE [d EXCEPT ![CHOOSE i \in at : TRUE] = kv],
                         Tail(pairs))

\* Bibliography.parse_node: acc.keys is self.unique_keys.
bib_parse_node(acc, node) ==
    LET citation_keys == cite_extract_keys(node)
    IN  IF citation_keys.error # "none" THEN [acc EXCEPT !.error = citation_keys.error]
        ELSE [acc EXCEPT !.keys = @ \cup citation_keys.keys]

\* ManuscriptFigures.parse_node: acc.r2a is self.reference_to_alias; the set
\* of keys is iterated in the order ord gives it, and _make_alias raising for
\* one key leaves the mapping as it was.
fig_parse_node(acc, node, fs, ord) ==
    LET keys == fig_extract_keys(node.nodelist)
    IN  IF keys.error # "none" THEN [acc EXCEPT !.error = keys.error]
        ELSE IF \E key \in keys.keys : get_fig_name(fs, key) = "invalid"
        THEN [acc EXCEPT !.error = "ValueError"]
        ELSE LET order == InOrder(keys.keys, ord)
             IN  [acc EXCEPT !.r2a = dict_update(@, [i \in 1..Len(order) |->
                                         <<order[i], make_alias(fs, order[i])>>])]

\* ManuscriptSection.process, the loop over the top-level nodes.
RECURSIVE scan_nodes(_, _, _, _)
scan_nodes(acc, nodes, fs, ord) ==
    IF nodes = <<>> \/ acc.error # "none" THEN acc
    ELSE LET node == Head(nodes)
         IN  IF node.type = "macro" /\ node.name = "cite"
             THEN scan_nodes(bib_parse_node(acc, node), Tail(nodes), fs, ord)
             ELSE IF node.type = "environment" /\ node.name = "figure"
             THEN scan_nodes(fig_parse_node(acc, node, fs, ord), Tail(nodes), fs, ord)
             ELSE scan_nodes(acc, Tail(nodes), fs, ord)

\* for key in keys_to_replace: replace(key, key.lstrip("@"))
RECURSIVE replace_keys(_, _)
replace_keys(text, keys_to_replace) ==
    IF keys_to_replace = <<>> THEN text
    ELSE LET key == Head(keys_to_replace)
         IN  replace_keys(str_replace(text, key, lstrip(key, {"@"})), Tail(keys_to_replace))

\* for ref, alias in fig.reference_to_alias.items(): replace(ref, alias)
RECURSIVE replace_refs(_, _)
replace_refs(text, r2a) ==
    IF r2a = <<>> THEN text
    ELSE replace_refs(str_replace(text, path_str(Head(r2a)[1]), path_str(Head(r2a)[2])),
                      Tail(r2a))

\* A value that is set, as opposed to None.
Some(x) == <<x>>

\* The keys of every includegraphics macro below the nodes, wherever it is.
RECURSIVE includegraphics_below(_)
includegraphics_below(nodes) ==
    IF nodes = <<>> THEN {}
    ELSE LET node == Head(nodes)
             own == IF node.type = "macro" /\ node.name = "includegraphics"
                    THEN extract_includegraphics_key(node).keys ELSE {}
         IN  own \cup includegraphics_below(node.nodelist) \cup includegraphics_below(Tail(nodes))

\* ---- the sections a manuscript may hold ----
\* \cite is parsed with the argument spec "*[[{".
cite_argspec == <<"*", "[", "[", "{">>

MacroNode(name, nodeargd, src) == Node("macro", name, <<>>, nodeargd, <<>>, src)

\* \cite{chars}
CiteNode(chars) ==
    MacroNode("cite",
              <<ParsedMacroArgs(cite_argspec,
                                <<None, None, None, <<GroupNode(<<CharsNode(chars)>>)>>>>)>>,
              <<"\\cite", "{">> \o chars \o <<"}">>)

\* The keys an author may cite, and the blanks that may surround a key.
CiteKeys == {<<"a">>, <<"@", "a">>, <<"@", "@", "a">>}

Pads == {<<>>, <<" ">>}

\* A key stands bare or with a blank on either side of it.
Pieces == {p \in [pre : Pads, key : CiteKeys, post : Pads] : p.pre = p.post}

\* The key arguments of at most n keys: sequences of padded keys.
RECURSIVE CiteArgs(_)
CiteArgs(n) ==
    IF n = 1 THEN {<<p>> : p \in Pieces}
    ELSE CiteArgs(n - 1) \cup {Append(q, p) : q \in CiteArgs(n - 1), p \in Pieces}

\* The text of a key argument: the padded keys joined by commas.
RECURSIVE join_pieces(_)
join_pieces(q) ==
    LET p == Head(q)
        text == p.pre \o p.key \o p.post
    IN  IF Len(q) = 1 THEN text ELSE text \o <<",">> \o join_pieces(Tail(q))

\* Malformed \cite macros: no argument data; an argument spec without "{";
\* fewer arguments than the spec has; an empty key group; a key group of two
\* nodes; a key group whose one node is a macro.
MalformedCites ==
    {MacroNode("cite", None, <<"\\cite">>),
     MacroNode("cite", <<ParsedMacroArgs(<<"*", "[">>, <<None, None>>)>>, <<"\\cite">>),
     MacroNode("cite", <<ParsedMacroArgs(cite_argspec, <<None, None, None>>)>>, <<"\\cite">>),
     MacroNode("cite", <<ParsedMacroArgs(cite_argspec,
                                         <<None, None, None, <<GroupNode(<<>>)>>>>)>>,
               <<"\\cite", "{", "}">>),
     MacroNode("cite", <<ParsedMacroArgs(cite_argspec,
                  <<None, None, None, <<GroupNode(<<CharsNode(<<"a">>), CommentNode>>)>>>>)>>,
               <<"\\cite", "{", "a", "%", "\n", "}">>),
     MacroNode("cite", <<ParsedMacroArgs(cite_argspec,
                  <<None, None, None,
                    <<GroupNode(<<MacroNode("relax", None, <<"\\relax">>)>>)>>>>)>>,
               <<"\\cite", "{", "\\relax", "}">>)}

\* \includegraphics is parsed with the argument spec "[{".
includegraphics_argspec == <<"[", "{">>

\* \includegraphics{ref}; the key node holds ref verbatim.
IncludeGraphicsNode(ref) ==
    MacroNode("includegraphics",
              <<ParsedMacroArgs(includegraphics_argspec,
                  <<None, <<GroupNode(<<Node("chars", "", ref, None, <<>>, path_str(ref))>>)>>>>)>>,
              <<"\\includegraphics", "{">> \o path_str(ref) \o <<"}">>)

\* Malformed \includegraphics macros: an empty key group; no argument data.
MalformedIncludes ==
    {MacroNode("includegraphics",
               <<ParsedMacroArgs(includegraphics_argspec, <<None, <<GroupNode(<<>>)>>>>)>>,
               <<"\\includegraphics", "{", "}">>),
     MacroNode("includegraphics", None, <<"\\includegraphics">>)}

\* The references a figure may include: a local file name, the same name with
\* a leading blank, a URL of a file, and a URL without a path.
ScanRefs == {<<"a.png">>, <<" a.png">>, <<"https:", "", "h", "d", "a.png">>,
             <<"https:", "", "h">>}

FigureLeaves == {IncludeGraphicsNode(r) : r \in ScanRefs} \cup MalformedIncludes

\* The node lists of at most two nodes of U.
NodeLists(U) == {<<>>} \cup {<<n>> : n \in U} \cup {<<m, n>> : m, n \in U}

Wrappers == {"subfigure", "center"}

\* Environments holding leaves, and environments holding one such environment.
FigureInner ==
    {EnvironmentNode(w, l) : w \in Wrappers, l \in NodeLists(FigureLeaves)}

FigureDeep ==
    {EnvironmentNode(w, <<EnvironmentNode(v, <<IncludeGraphicsNode(r)>>)>>) :
        w \in Wrappers, v \in Wrappers, r \in {<<"a.png">>, <<"https:", "", "h", "d", "a.png">>}}

FigureNodes ==
    {EnvironmentNode("figure", l) : l \in NodeLists(FigureLeaves \cup FigureInner \cup FigureDeep)}

\* Nodes for sections of two nodes.
PairNodes ==
    {CiteNode(<<"@", "a">>), CiteNode(<<"a">>),
     MacroNode("cite", None, <<"\\cite">>),
     EnvironmentNode("figure", <<IncludeGraphicsNode(<<"a.png">>)>>),
     EnvironmentNode("center", <<CiteNode(<<"a">>)>>),
     CharsNode(<<"a">>)}

Sections ==
    {<<CiteNode(join_pieces(q))>> : q \in CiteArgs(MaxCiteKeys)}
    \cup {<<n>> : n \in MalformedCites}
    \cup {<<n>> : n \in FigureNodes}
    \cup {<<m, n>> : m, n \in PairNodes}

ScanIdle ==
    /\ nodelist = <<>> /\ raw_content = <<>> /\ fmt_content = None
    /\ spc = "off" /\ serror = "none"

\* The state after ManuscriptSection.read_tex for the first section of a
\* build: bib and fig just constructed, nothing observed yet.  The local
\* images of the project vary for the sections that include graphics, the
\* only ones whose scan looks at the file system.
ScanStart ==
    /\ nodelist \in Sections
    /\ raw_content = latex_verbatim(nodelist)
    /\ fmt_content = None
    /\ spc = "read" /\ serror = "none"
    /\ files \in IF includegraphics_below(nodelist) = {}
                 THEN {<<>>}
                 ELSE {fs \in FileSystems : DOMAIN fs \subseteq LocalRefs}
    /\ bibCacheFile = {} /\ manual = {} /\ cache = {} /\ unique_keys = {} /\ output = {}
    /\ references_to_pull = <<>> /\ missing_keys = <<>> /\ results = <<>>
    /\ requests = <<>> /\ bibWrites = 0
    /\ pc = "off" /\ error = "none" /\ build = "first" /\ prevBib = NoPrev
    /\ figCacheFile = {} /\ figCache = {} /\ reference_to_alias = <<>>
    /\ to_download = <<>> /\ missing = <<>> /\ fetched = 0 /\ figRequests = <<>>
    /\ copies = {} /\ figWrites = 0 /\ fpc = "off" /\ ferror = "none"
    /\ fbuild = "first" /\ prevFig = NoPrevFig

\* ManuscriptSection.process(bib, fig).  Python iterates a set in an order
\* of its own: ord is the order of the figure keys, korder the order of
\* keys_to_replace.
section_process ==
    /\ spc = "read"
    /\ \E ord \in Perms(includegraphics_below(nodelist)) :
        LET scanned == scan_nodes([keys |-> unique_keys, r2a |-> reference_to_alias,
                                   error |-> "none"], nodelist, files, ord)
        IN  /\ unique_keys' = scanned.keys
            /\ reference_to_alias' = scanned.r2a
            /\ IF scanned.error # "none"
               THEN /\ spc' = "failed" /\ serror' = scanned.error
                    /\ fmt_content' = None
               ELSE /\ spc' = "processed" /\ serror' = "none"
                    /\ \E korder \in Perms({key \in scanned.keys : Contains(key, "@")}) :
                          fmt_content' = Some(replace_refs(replace_keys(raw_content, korder),
                                                           scanned.r2a))
    /\ UNCHANGED <<nodelist, raw_content>>
    /\ UNCHANGED <<bibCacheFile, manual, cache, output, references_to_pull, missing_keys,
                   results, requests, bibWrites, pc, error, build, prevBib>>
    /\ UNCHANGED <<files, figCacheFile, figCache, to_download, missing, fetched,
                   figRequests, copies, figWrites, fpc, ferror, fbuild, prevFig>>
    /\ UNCHANGED <<mergeVars, tplVars, limVars, metaVars, fetch_error_names>>

(***************************************************************************)
(* build_latex's section loop, find_manuscript_files and MainTemplate       *)
(* (build.py).  A file name is the sequence of its leading characters and   *)
(* one token for the rest: "10.methods.tex" is <<"1", "0", ".methods.tex">>.*)
(***************************************************************************)
Digits == {"0", "1", "2"}

\* Code points of the characters file names are compared by.
FileOrd(c) == CASE c = "0" -> 48 [] c = "1" -> 49 [] c = "2" -> 50 [] OTHER -> 46

\* s < t for two paths of the same directory.
RECURSIVE PathLess(_, _)
PathLess(s, t) ==
    IF t = <<>> THEN FALSE
    ELSE IF s = <<>> THEN TRUE
    ELSE IF Head(s) # Head(t) THEN FileOrd(Head(s)) < FileOrd(Head(t))
    ELSE PathLess(Tail(s), Tail(t))

\* sorted(paths)
RECURSIVE sorted_paths(_)
sorted_paths(S) ==
    IF S = {} THEN <<>>
    ELSE LET m == CHOOSE x \in S : \A y \in S \ {x} : PathLess(x, y)
         IN  <<m>> \o sorted_paths(S \ {m})

TexRests == {".intro.tex", ".results.tex", ".methods.tex"}

\* glob("[0-9]*.tex")
glob_numbered(dir) == {f \in dir : Head(f) \in Digits /\ f[Len(f)] \in TexRests}

abstract_tex == <<"abstract.tex">>

supplement_tex == <<"supplement.tex">>

\* find_manuscript_files: "error" stands for the ValueError.
find_manuscript_files(dir) ==
    LET main_files == sorted_paths(glob_numbered(dir))
    IN  IF main_files = <<>> THEN [error |-> "ValueError", files |-> <<>>]
        ELSE [error |-> "none",
              files |-> (IF abstract_tex \in dir THEN <<abstract_tex>> ELSE <<>>)
                        \o main_files
                        \o (IF supplement_tex \in dir THEN <<supplement_tex>> ELSE <<>>)]

\* The slot words and the pieces of text of a template line.
LowerWords == {"metadata", "abstract", "main", "supplement", "x"}

\* re.match(r"^@[a-z]+$", line.strip())
re_match(line) ==
    LET t == strip(line)
    IN  /\ Len(t) >= 2
        /\ t[1] = "@"
        /\ \A i \in 2..Len(t) : t[i] \in LowerWords

\* MainTemplate._parse_templates
RECURSIVE parse_lines(_)
parse_lines(lines) ==
    IF lines = <<>> THEN <<>>
    ELSE (IF re_match(Head(lines)) THEN <<strip(Head(lines))>> ELSE <<>>)
         \o parse_lines(Tail(lines))

parse_templates(content) == parse_lines(split(content, "\n"))

\* The slot list process insists on.
expected_templates ==
    <<(<<"@", "metadata">>), (<<"@", "abstract">>), (<<"@", "main">>), (<<"@", "supplement">>)>>

\* str.replace(old, new, 1): the first occurrence only.
RECURSIVE str_replace_first(_, _, _)
str_replace_first(s, old, new) ==
    IF Len(s) < Len(old) THEN s
    ELSE IF SubSeq(s, 1, Len(old)) = old
    THEN new \o SubSeq(s, Len(old) + 1, Len(s))
    ELSE <<Head(s)>> \o str_replace_first(Tail(s), old, new)

\* str(i) for the indices an affiliation can get.
str_int(i) == CASE i = 1 -> "1" [] i = 2 -> "2" [] i = 3 -> "3" [] i = 4 -> "4" [] OTHER -> "5"

\* gather_affiliations without the "affil not in affil_to_idx" test: a
\* plausible slip.
gather_affiliations_no_dedup(author_list) ==
    LET RECURSIVE all(_)
        all(q) == IF q = <<>> THEN <<>>
                  ELSE (IF Head(q).affiliations = None THEN <<>>
                        ELSE Head(q).affiliations[1]) \o all(Tail(q))
        listed == all(author_list)
    IN  [i \in 1..Len(listed) |-> <<listed[i], i>>]

\* MainTemplate.gather_affiliations: the dict affil -> idx as its (affil, idx)
\* pairs in insertion order.
gather_affiliations(author_list) ==
    LET RECURSIVE inner(_, _)
        inner(d, affils) ==
            IF affils = <<>> THEN d
            ELSE IF \E i \in 1..Len(d.affil_to_idx) : d.affil_to_idx[i][1] = Head(affils)
            THEN inner(d, Tail(affils))
            ELSE inner([affil_to_idx |-> Append(d.affil_to_idx, <<Head(affils), d.idx>>),
                        idx |-> d.idx + 1], Tail(affils))
        RECURSIVE outer(_, _)
        outer(d, q) ==
            IF q = <<>> THEN d
            ELSE IF Head(q).affiliations = None THEN outer(d, Tail(q))
            ELSE outer(inner(d, Head(q).affiliations[1]), Tail(q))
    IN  outer([affil_to_idx |-> <<>>, idx |-> 1], author_list).affil_to_idx

\* format_author giving the contact footnote to whoever has an email, the
\* corresponding flag unread: a plausible slip.
format_author_email_only(author, affil_to_idx) ==
    LET get(a) == affil_to_idx[CHOOSE i \in 1..Len(affil_to_idx) : affil_to_idx[i][1] = a][2]
        RECURSIVE join(_)
        join(q) == IF q = <<>> THEN <<>>
                   ELSE IF Len(q) = 1 THEN q
                   ELSE <<Head(q), ",">> \o join(Tail(q))
        affil_idx == join([i \in 1..Len(author.affiliations[1]) |->
                              str_int(get(author.affiliations[1][i]))])
    IN  <<"\\author">>
        \o (IF author.affiliations # None THEN <<"[">> \o affil_idx \o <<"]">> ELSE <<>>)
        \o <<"{">>
        \o (IF author.orcid # None
            THEN <<"{", "\\href", "{", "https://orcid.org/">> \o author.orcid[1] \o <<"}">>
                 \o <<"{", "\\usebox", "{", "\\orcid", "}", "\\hspace", "{", "1mm", "}", "}">>
            ELSE <<>>)
        \o str_replace(author.name, <<" ">>, <<"~">>)
        \o (IF author.email = None THEN <<>>
            ELSE <<"\\thanks", "{", "\\texttt", "{", "Correspondence may be addressed to ">>
                 \o author.email[1] \o <<"}", "}">>)
        \o <<"}">>
        \o (IF author.orcid # None THEN <<"}">> ELSE <<>>)

\* MainTemplate.format_author.  Braces are tokens of their own.
format_author(author, affil_to_idx) ==
    LET get(a) == affil_to_idx[CHOOSE i \in 1..Len(affil_to_idx) : affil_to_idx[i][1] = a][2]
        RECURSIVE join(_)
        join(q) == IF q = <<>> THEN <<>>
                   ELSE IF Len(q) = 1 THEN q
                   ELSE <<Head(q), ",">> \o join(Tail(q))
        affil_idx == join([i \in 1..Len(author.affiliations[1]) |->
                              str_int(get(author.affiliations[1][i]))])
    IN  <<"\\author">>
        \o (IF author.affiliations # None THEN <<"[">> \o affil_idx \o <<"]">> ELSE <<>>)
        \o <<"{">>
        \o (IF author.orcid # None
            THEN <<"{", "\\href", "{", "https://orcid.org/">> \o author.orcid[1] \o <<"}">>
                 \o <<"{", "\\usebox", "{", "\\orcid", "}", "\\hspace", "{", "1mm", "}", "}">>
            ELSE <<>>)
        \o str_replace(author.name, <<" ">>, <<"~">>)
        \o (IF author.corresponding # None /\ author.corresponding[1]
            THEN IF author.email = None
                 THEN <<"\\thanks", "{", "\\texttt", "{", "Corresponding author", "}", "}">>
                 ELSE <<"\\thanks", "{", "\\texttt", "{", "Correspondence may be addressed to ">>
                      \o author.email[1] \o <<"}", "}">>
            ELSE <<>>)
        \o <<"}">>
        \o (IF author.orcid # None THEN <<"}">> ELSE <<>>)

\* MainTemplate.format_metadata
format_metadata(metadata) ==
    LET affil_to_idx == gather_affiliations(metadata.authors)
        RECURSIVE author_lines(_)
        author_lines(q) ==
            IF q = <<>> THEN <<>>
            ELSE format_author(Head(q), affil_to_idx) \o <<"\n">> \o author_lines(Tail(q))
        RECURSIVE affil_lines(_)
        affil_lines(d) ==
            IF d = <<>> THEN <<>>
            ELSE <<"\\affil[", str_int(Head(d)[2]), "]{", Head(d)[1], "}", "\n">>
                 \o affil_lines(Tail(d))
    IN  <<"\\title{">> \o metadata.title \o <<"}", "\n", "\n">>
        \o <<"\\date{">> \o metadata.date \o <<"}", "\n", "\n">>
        \o <<"\\renewcommand\\Authfont{\\bfseries}", "\n",
             "\\setlength{\\affilsep}{0em}", "\n",
             "\\newbox{\\orcid}\\sbox{\\orcid}{\\includegraphics[scale=0.06]{orcid.pdf}}",
             "\n", "\n">>
        \o author_lines(metadata.authors)
        \o <<"\n">>
        \o affil_lines(affil_to_idx)

\* for file in main_files: main_content += r"\input{" + file.name + "}\n"
RECURSIVE main_content(_)
main_content(main_files) ==
    IF main_files = <<>> THEN <<>>
    ELSE <<"\\input{">> \o Head(main_files) \o <<"}", "\n">> \o main_content(Tail(main_files))

supp_text == <<"\\section*{Supplementary Materials}", "\n", "\\input{supplement.tex}">>

\* MainTemplate.process accepting the four slots in any order: a plausible slip.
template_process_any_order(raw, tpls, metadata, main_files, supplement_exists) ==
    IF Range(tpls) # Range(expected_templates) \/ Len(tpls) # 4
    THEN [error |-> "ValueError", fmt_content |-> None]
    ELSE [error |-> "none", fmt_content |-> Some(raw)]

\* MainTemplate.process; supplement_exists is
\* pathlib.Path("content/supplement.tex").exists(), a path relative to the
\* working directory.
template_process(raw, tpls, metadata, main_files, supplement_exists) ==
    IF tpls # expected_templates
    THEN [error |-> "ValueError", fmt_content |-> None]
    ELSE LET c1 == str_replace_first(raw, <<"@", "metadata">>, format_metadata(metadata))
             c2 == str_replace_first(c1, <<"@", "abstract">>, <<"\\input{abstract.tex}">>)
             c3 == str_replace_first(c2, <<"@", "main">>, main_content(main_files))
             c4 == IF supplement_exists
                   THEN str_replace_first(c3, <<"@", "supplement">>, supp_text)
                   ELSE str_replace_first(c3, <<"@", "supplement">>, <<>>)
         IN  [error |-> "none", fmt_content |-> Some(c4)]

\* The text of a file: its lines joined by "\n".
RECURSIVE join_lines(_)
join_lines(lines) ==
    IF lines = <<>> THEN <<>>
    ELSE IF Len(lines) = 1 THEN Head(lines)
    ELSE Head(lines) \o <<"\n">> \o join_lines(Tail(lines))

\* The lines a template may hold: the four slot lines, an unknown slot line
\* with blanks around it, and boilerplate: a comment that mentions a slot.
TemplateLines ==
    {<<"@", "metadata">>, <<"@", "abstract">>, <<"@", "main">>, <<"@", "supplement">>,
     <<" ", "@", "x", " ">>, <<"%", " ", "@", "main">>}

RECURSIVE LinesUpTo(_)
LinesUpTo(n) ==
    IF n = 0 THEN {<<>>}
    ELSE LinesUpTo(n - 1) \cup {Append(q, l) : q \in LinesUpTo(n - 1), l \in TemplateLines}

\* template_data/build/main.tex as the test of _parse_templates has it.
DefaultTemplate ==
    <<(<<"\\documentclass{article}">>), (<<"@", "metadata">>), (<<"@", "abstract">>),
      (<<"@", "main">>), (<<"@", "supplement">>)>>

TheMetadata == [title |-> <<"T">>, date |-> <<"D">>, authors |-> <<>>]

\* The author lists of umb.toml: one author of any make, or up to MaxAuthors
\* authors who differ in their affiliations alone.
AuthorLists ==
    LET AffilLists == {None} \cup {Some(q) : q \in SeqsUpTo({"A", "B"}, MaxAffils)}
        Authors == [name : {<<"N">>, <<"N", " ", "M">>},
                    orcid : {None, Some(<<"0000">>)},
                    email : {None, Some(<<"e@x">>)},
                    affiliations : AffilLists,
                    corresponding : {None, Some(FALSE), Some(TRUE)}]
        Plain == {a \in Authors : /\ a.name = <<"N">> /\ a.orcid = None
                                  /\ a.email = None /\ a.corresponding = None}
    IN  {<<a>> : a \in Authors} \cup SeqsUpTo(Plain, MaxAuthors)

\* Metadata.read_toml returned: format_metadata is about to be called.
MetaStart ==
    /\ authors \in AuthorLists
    /\ meta_affils = <<>> /\ meta_output = None /\ mdpc = "loaded"

\* MainTemplate.format_metadata(metadata)
metadata_format ==
    /\ mdpc = "loaded"
    /\ meta_affils' = gather_affiliations(authors)
    /\ meta_output' = Some(format_metadata([TheMetadata EXCEPT !.authors = authors]))
    /\ mdpc' = "formatted"
    /\ UNCHANGED authors
    /\ UNCHANGED <<bibVars, figVars, mergeVars, scanVars, tplVars, limVars, fetch_error_names>>

\* The .tex files a content directory may hold besides imports.tex.
ContentNames ==
    {<<"1", ".intro.tex">>, <<"2", ".results.tex">>, <<"1", "0", ".methods.tex">>,
     abstract_tex, supplement_tex}

TplIdle ==
    /\ content_dir = {} /\ cwd_supplement = FALSE /\ built_main_files = <<>>
    /\ build_written = {} /\ tpl_raw = <<>> /\ templates = <<>> /\ tpl_fmt = None
    /\ build_log = <<>> /\ tpc = "off" /\ terror = "none"

\* build_latex(root_dir) about to scan the content directory.  The working
\* directory is root_dir when the command line calls it (then cwd_supplement
\* says whether root_dir/content/supplement.tex exists), and anything for
\* another caller of build_latex.
BuildStart ==
    /\ content_dir \in SUBSET ContentNames
    /\ cwd_supplement \in BOOLEAN
    /\ built_main_files = <<>> /\ build_written = {} /\ build_log = <<>>
    /\ tpl_raw = join_lines(DefaultTemplate)
    /\ templates = <<>> /\ tpl_fmt = None
    /\ tpc = "start" /\ terror = "none"

\* MainTemplate.read_tex(path) on any template, then asked to process a
\* given list of main files.
TemplateStart ==
    /\ content_dir = {} /\ cwd_supplement = FALSE
    /\ built_main_files = <<(<<"1", ".intro.tex">>)>>
    /\ build_written = {} /\ build_log = <<>>
    /\ \E lines \in LinesUpTo(MaxTemplateLines) : tpl_raw = join_lines(lines)
    /\ templates = <<>> /\ tpl_fmt = None
    /\ tpc = "reconciled" /\ terror = "none"

\* One call of build_latex, as build_log records it.
Call(op, arg) == [op |-> op, arg |-> arg]

\* build_latex, lines 59-75: find the manuscript files, process each and
\* write it to build; the numbered ones go to built_main_files.  process
\* raises for a section with a malformed macro: the first n files pass and
\* the next one, if there is one, raises.
build_sections ==
    /\ tpc = "start"
    /\ LET main_files == find_manuscript_files(content_dir)
       IN  IF main_files.error # "none"
           THEN /\ tpc' = "failed" /\ terror' = main_files.error
                /\ UNCHANGED <<built_main_files, build_written, build_log>>
           ELSE \E n \in 0..Len(main_files.files) :
                LET passed == SubSeq(main_files.files, 1, n)
                    tried == SubSeq(main_files.files, 1,
                                    IF n < Len(main_files.files) THEN n + 1 ELSE n)
                IN  /\ build_log' = [i \in 1..Len(tried) |-> Call("process", tried[i])]
                    /\ build_written' = build_written \cup Range(passed)
                    /\ built_main_files' = SelectSeq(passed,
                                                     LAMBDA file : Head(file) \in Digits)
                    /\ IF n < Len(main_files.files)
                       THEN tpc' = "failed" /\ terror' = "process"
                       ELSE tpc' = "scanned" /\ terror' = "none"
    /\ UNCHANGED <<content_dir, cwd_supplement, tpl_raw, templates, tpl_fmt>>
    /\ UNCHANGED <<bibVars, figVars, mergeVars, scanVars, limVars, metaVars, fetch_error_names>>

\* build_latex, lines 77-79: bib.reconcile_citations() returns the library,
\* which is written to build/references.bib, or raises.
build_reconcile_citations ==
    /\ tpc = "scanned"
    /\ \E raised \in BOOLEAN :
          /\ build_log' = Append(build_log, Call("reconcile_citations",
                                                 IF raised THEN <<"raised">> ELSE <<"ok">>))
          /\ IF raised
             THEN /\ tpc' = "failed" /\ terror' = "reconcile_citations"
                  /\ UNCHANGED build_written
             ELSE /\ tpc' = "bib_reconciled" /\ terror' = "none"
                  /\ build_written' = build_written \cup {<<"references.bib">>}
    /\ UNCHANGED <<content_dir, cwd_supplement, built_main_files, tpl_raw, templates, tpl_fmt>>
    /\ UNCHANGED <<bibVars, figVars, mergeVars, scanVars, limVars, metaVars, fetch_error_names>>

\* build_latex going on to the template although reconcile_figures raised: a
\* plausible slip (an exception swallowed).
build_reconcile_figures_swallowed ==
    /\ tpc = "bib_reconciled"
    /\ \E raised \in BOOLEAN :
          /\ build_log' = Append(build_log, Call("reconcile_figures",
                                                 IF raised THEN <<"raised">> ELSE <<"ok">>))
          /\ tpc' = "reconciled"
          /\ terror' = IF raised THEN "reconcile_figures" ELSE "none"
    /\ UNCHANGED <<content_dir, cwd_supplement, built_main_files, build_written, tpl_raw,
                   templates, tpl_fmt>>
    /\ UNCHANGED <<bibVars, figVars, mergeVars, scanVars, limVars, metaVars, fetch_error_names>>

\* build_latex, line 80: fig.reconcile_figures(build_dir) returns or raises.
build_reconcile_figures ==
    /\ tpc = "bib_reconciled"
    /\ \E raised \in BOOLEAN :
          /\ build_log' = Append(build_log, Call("reconcile_figures",
                                                 IF raised THEN <<"raised">> ELSE <<"ok">>))
          /\ IF raised
             THEN tpc' = "failed" /\ terror' = "reconcile_figures"
             ELSE tpc' = "reconciled" /\ terror' = "none"
    /\ UNCHANGED <<content_dir, cwd_supplement, built_main_files, build_written, tpl_raw,
                   templates, tpl_fmt>>
    /\ UNCHANGED <<bibVars, figVars, mergeVars, scanVars, limVars, metaVars, fetch_error_names>>

\* MainTemplate.read_tex(file).process(metadata, built_main_files)
main_template_process ==
    /\ tpc = "reconciled"
    /\ templates' = parse_templates(tpl_raw)
    /\ LET done == template_process(tpl_raw, templates', TheMetadata, built_main_files,
                                    cwd_supplement)
       IN  /\ tpl_fmt' = done.fmt_content
           /\ terror' = done.error
           /\ tpc' = IF done.error = "none" THEN "processed" ELSE "process_failed"
    /\ UNCHANGED <<content_dir, cwd_supplement, built_main_files, build_written, build_log,
                   tpl_raw>>
    /\ UNCHANGED <<bibVars, figVars, mergeVars, scanVars, limVars, metaVars, fetch_error_names>>

main_tex == <<"main.tex">>

\* ManuscriptFile.write(path) on the template: ValueError while fmt_content
\* is None, else the file is written.
main_template_write ==
    /\ tpc \in {"processed", "process_failed"}
    /\ IF tpl_fmt = None
       THEN /\ tpc' = "write_failed" /\ terror' = "ValueError"
            /\ UNCHANGED <<build_written, build_log>>
       ELSE /\ tpc' = "written" /\ terror' = "none"
            /\ build_written' = build_written \cup {main_tex}
            /\ build_log' = Append(build_log, Call("write", main_tex))
    /\ UNCHANGED <<content_dir, cwd_supplement, built_main_files, tpl_raw, templates, tpl_fmt>>
    /\ UNCHANGED <<bibVars, figVars, mergeVars, scanVars, limVars, metaVars, fetch_error_names>>

(***************************************************************************)
(* pull_doi_references against the clock (cite.py; cache_url_figures in     *)
(* figures.py sets its limiter up the same way).  The limiter is            *)
(* pyrate_limiter's: Rate(n_per_second, Duration.SECOND) admits             *)
(* n_per_second tokens in any one second, and with max_delay set            *)
(* try_acquire on a full bucket either sleeps until a token is free or      *)
(* raises LimiterDelayException when the delay it works out exceeds         *)
(* max_delay.  Times are in milliseconds.                                   *)
(***************************************************************************)
n_per_second == 50

Duration_SECOND == 1000

max_delay == 1000

\* The time one fetch may take; the same for every fetch of a call.
Latencies == {0, 10, 20, 30}

\* The tokens of the bucket still inside the window at time now.
live_tokens(bucket, now) == SelectSeq(bucket, LAMBDA t : t > now - Duration_SECOND)

\* A limiter that admits one token per second: a plausible slip.
bucket_full_after_one(bucket, now) == Len(live_tokens(bucket, now)) >= 1

\* Whether the rate is exhausted at time now.
bucket_full(bucket, now) == Len(live_tokens(bucket, now)) >= n_per_second

\* The time until the oldest live token leaves the window.
waiting(bucket, now) == live_tokens(bucket, now)[1] + Duration_SECOND - now

LimIdle ==
    /\ lim_latency = 0 /\ lim_clock = 0 /\ lim_bucket = <<>> /\ lim_done = 0
    /\ lim_waited = 0 /\ lpc = "off" /\ lerror = "none"

\* pull_doi_references(keys) called with NKeys distinct keys.
LimStart ==
    /\ lim_latency \in Latencies
    /\ lim_clock = 0 /\ lim_bucket = <<>> /\ lim_done = 0 /\ lim_waited = 0
    /\ lpc = "pulling" /\ lerror = "none"

\* try_acquire is granted at once and fetch_doi_reference succeeds.
lim_fetch_ok ==
    /\ lpc = "pulling" /\ lim_done < NKeys
    /\ ~bucket_full(lim_bucket, lim_clock)
    /\ lim_bucket' = Append(live_tokens(lim_bucket, lim_clock), lim_clock)
    /\ lim_clock' = lim_clock + lim_latency
    /\ lim_done' = lim_done + 1
    /\ UNCHANGED <<lim_latency, lim_waited, lpc, lerror>>
    /\ UNCHANGED <<bibVars, figVars, mergeVars, scanVars, tplVars, metaVars, fetch_error_names>>

\* try_acquire is granted at once and fetch_doi_reference raises.
lim_fetch_failed ==
    /\ lpc = "pulling" /\ lim_done < NKeys
    /\ ~bucket_full(lim_bucket, lim_clock)
    /\ lim_bucket' = Append(live_tokens(lim_bucket, lim_clock), lim_clock)
    /\ lim_clock' = lim_clock + lim_latency
    /\ lpc' = "failed" /\ lerror' = "fetch"
    /\ UNCHANGED <<lim_latency, lim_done, lim_waited>>
    /\ UNCHANGED <<bibVars, figVars, mergeVars, scanVars, tplVars, metaVars, fetch_error_names>>

\* The bucket is full and the limiter sleeps until the oldest token has left
\* the window; the token is then granted and the fetch succeeds.
lim_delay ==
    /\ lpc = "pulling" /\ lim_done < NKeys
    /\ bucket_full(lim_bucket, lim_clock)
    /\ waiting(lim_bucket, lim_clock) <= max_delay
    /\ LET now == lim_clock + waiting(lim_bucket, lim_clock)
       IN  /\ lim_bucket' = Append(live_tokens(lim_bucket, now), now)
           /\ lim_clock' = now + lim_latency
           /\ lim_waited' = IF waiting(lim_bucket, lim_clock) > lim_waited
                            THEN waiting(lim_bucket, lim_clock) ELSE lim_waited
    /\ lim_done' = lim_done + 1
    /\ UNCHANGED <<lim_latency, lpc, lerror>>
    /\ UNCHANGED <<bibVars, figVars, mergeVars, scanVars, tplVars, metaVars, fetch_error_names>>

\* The bucket is full and the limiter raises LimiterDelayException:
\* ValueError("Rate limit exceeded"), before any request for this key.
lim_refuse ==
    /\ lpc = "pulling" /\ lim_done < NKeys
    /\ bucket_full(lim_bucket, lim_clock)
    /\ lpc' = "failed" /\ lerror' = "rate"
    /\ UNCHANGED <<lim_latency, lim_clock, lim_bucket, lim_done, lim_waited>>
    /\ UNCHANGED <<bibVars, figVars, mergeVars, scanVars, tplVars, metaVars, fetch_error_names>>

\* Every key was fetched: pull_doi_references returns.
lim_return ==
    /\ lpc = "pulling" /\ lim_done = NKeys
    /\ lpc' = "done"
    /\ UNCHANGED <<lim_latency, lim_clock, lim_bucket, lim_done, lim_waited, lerror>>
    /\ UNCHANGED <<bibVars, figVars, mergeVars, scanVars, tplVars, metaVars, fetch_error_names>>

(***************************************************************************)
(* Specification: each behaviour exercises one component.                  *)
(***************************************************************************)
MetaIdle == authors = <<>> /\ meta_affils = <<>> /\ meta_output = None /\ mdpc = "off"

RestIdle == ScanIdle /\ TplIdle /\ LimIdle /\ MetaIdle /\ fetch_error_names = <<>>

Init ==
    \/ BibStart /\ FigIdle /\ MergeIdle /\ RestIdle
    \/ BibIdle /\ FigStart /\ MergeIdle /\ RestIdle
    \/ BibIdle /\ FigIdle /\ MergeStart /\ RestIdle
    \/ ScanStart /\ MergeIdle /\ TplIdle /\ LimIdle /\ MetaIdle /\ fetch_error_names = <<>>
    \/ BibIdle /\ FigIdle /\ MergeIdle /\ ScanIdle /\ BuildStart /\ LimIdle /\ MetaIdle
       /\ fetch_error_names = <<>>
    \/ BibIdle /\ FigIdle /\ MergeIdle /\ ScanIdle /\ TemplateStart /\ LimIdle /\ MetaIdle
       /\ fetch_error_names = <<>>
    \/ BibIdle /\ FigIdle /\ MergeIdle /\ ScanIdle /\ TplIdle /\ LimStart /\ MetaIdle
       /\ fetch_error_names = <<>>
    \/ BibIdle /\ FigIdle /\ MergeIdle /\ ScanIdle /\ TplIdle /\ LimIdle /\ MetaStart
       /\ fetch_error_names = <<>>

Next ==
    \/ reconcile_citations
    \/ pull_rate_limited
    \/ pull_fetch_failed
    \/ pull_fetch_ok
    \/ reconcile_citations_store
    \/ next_build_bib
    \/ reconcile_figures
    \/ fig_rate_limited
    \/ fig_fetch_failed
    \/ fig_request_raised
    \/ fig_fetch_ok
    \/ reconcile_figures_store
    \/ next_build_fig
    \/ merge_caches
    \/ section_process
    \/ build_sections
    \/ build_reconcile_citations
    \/ build_reconcile_figures
    \/ main_template_process
    \/ main_template_write
    \/ lim_fetch_ok
    \/ lim_fetch_failed
    \/ lim_delay
    \/ lim_refuse
    \/ lim_return
    \/ metadata_format

Spec == Init /\ [][Next]_vars

(***************************************************************************)
(* Claims about Bibliography.reconcile_citations                           *)
(***************************************************************************)
\* A DOI-marked key bears the marker as its first character.
DoiMarked(key) == key # <<>> /\ Head(key) = "@"

\* The loop of reconcile_citations has run and the cache is still the one
\* the call started with.
Classified == pc \in {"pulling", "done", "failed"} /\ bibWrites = 0

Count(q, x) == Cardinality({i \in 1..Len(q) : q[i] = x})

\* C1: a key that does not begin with the marker is taken from manual first,
\* then from the cache, else reported missing, and is never queued for fetch:
\* the queue holds stripped forms of DOI-marked keys only.
C1_PlainKeyNeverQueued ==
    Classified =>
        /\ \A key \in unique_keys : ~DoiMarked(key) =>
              IF key \in entries_keys(manual) THEN entries_dict(manual, key) \in output
              ELSE IF key \in entries_keys(cache) THEN entries_dict(cache, key) \in output
              ELSE Count(missing_keys, key) = 1
        /\ Range(references_to_pull)
              \subseteq {stripped_of(k) : k \in {u \in unique_keys : DoiMarked(u)}}

\* The key an observed key resolves to.
ResolvesTo(key) == IF DoiMarked(key) THEN stripped_of(key) ELSE key

\* C2: when manual and cache both hold an entry under the key an observed key
\* (plain or DOI-marked) resolves to, the output holds the manual entry.
C2_ManualPrecedence ==
    Classified =>
        \A key \in unique_keys :
            (ResolvesTo(key) \in entries_keys(manual) \cap entries_keys(cache))
                => entries_dict(manual, ResolvesTo(key)) \in output

\* C3: a DOI-marked key is queued for fetch exactly if its stripped form is in
\* neither the cache nor manual; otherwise the output holds an entry under the
\* stripped form and no request is sent for it.
C3_DoiQueuedIffAbsent ==
    Classified =>
        \A key \in unique_keys : DoiMarked(key) =>
            LET stripped == stripped_of(key)
                local == stripped \in entries_keys(cache) \cup entries_keys(manual)
            IN  /\ (stripped \in Range(references_to_pull)) <=> ~local
                /\ local => /\ stripped \in entries_keys(output)
                            /\ stripped \notin Range(requests)

\* C3 witness: one DOI-marked key was resolved locally, another was queued
\* and requested.
C3_Witness ==
    /\ Classified
    /\ \E k1, k2 \in unique_keys :
          /\ DoiMarked(k1) /\ stripped_of(k1) \in entries_keys(manual)
          /\ stripped_of(k1) \in entries_keys(output)
          /\ DoiMarked(k2) /\ stripped_of(k2) \in Range(requests)

\* The observed plain keys that neither manual nor the cache holds.
MissingPlain ==
    {key \in unique_keys :
        ~DoiMarked(key) /\ key \notin entries_keys(manual) \cup entries_keys(cache)}

\* C4: if some observed plain key is in neither manual nor the cache, the call
\* fails with an error naming every such key, and no request has been sent.
C4_MissingPlainFailsFirst ==
    (Classified /\ MissingPlain # {}) =>
        /\ pc = "failed" /\ error = "missing"
        /\ MissingPlain \subseteq Range(missing_keys)
        /\ requests = <<>>

\* C5: a successful call has sent exactly one request per distinct stripped
\* key of the queue, and holds each fetched record in the output and in the
\* written cache file under the stripped key.
C5_OneRequestPerKey ==
    (pc = "done" /\ bibWrites > 0) =>
        \A s \in Range(references_to_pull) :
            /\ Count(requests, s) = 1
            /\ fetched_entry(s) \in output
            /\ fetched_entry(s) \in bibCacheFile

(***************************************************************************)
(* Claims about both reconcilers and their caches                          *)
(***************************************************************************)
\* C6: a reconcile run again after a successful one, with the same observed
\* references and the cache the first left, sends no request, resolves the
\* same set and does not rewrite the cache file; for citations and figures.
C6_ReconcileIdempotent ==
    /\ (build = "again" /\ prevBib.ok /\ pc \in {"pulling", "done", "failed"}) =>
          /\ pc = "done"
          /\ requests = <<>>
          /\ bibWrites = 0
          /\ output = prevBib.output
          /\ bibCacheFile = prevBib.cacheFile
    /\ (fbuild = "again" /\ prevFig.ok /\ fpc \in {"downloading", "done", "failed"}) =>
          /\ fpc = "done"
          /\ figRequests = <<>>
          /\ figWrites = 0
          /\ built_files(files) = prevFig.built
          /\ figCacheFile = prevFig.cacheFile

\* C7: no step removes an entry from the bibliography cache file or from the
\* figures cache file, whether the reconcile succeeds or fails.
C7_CachesOnlyGrow ==
    [][bibCacheFile \subseteq bibCacheFile' /\ figCacheFile \subseteq figCacheFile']_vars

\* C7 witness: the figures cache file was rewritten and holds an entry it had
\* before next to a downloaded one.
C7_Witness ==
    /\ fpc = "done" /\ figWrites > 0
    /\ \E f \in figCacheFile : f \notin Range(to_download)
    /\ \E f \in figCacheFile : f \in Range(to_download)

(***************************************************************************)
(* Claims about ManuscriptFigures.reconcile_figures                        *)
(***************************************************************************)
\* The loop of reconcile_figures has run and the cache is still the one the
\* call started with.
FigClassified == fpc \in {"downloading", "done", "failed"} /\ figWrites = 0

\* C8: every observed reference is classified: matched by an entry with a
\* local file -> that file copied to build/<alias>; matched by an entry
\* without one -> missing; unmatched URL -> queued for download; otherwise
\* missing.  If anything is missing the call fails and no request is sent.
C8_FigureClassification ==
    FigClassified =>
        LET a2f == alias_to_figure(figCache)
            Queued(ref) == {i \in 1..Len(to_download) : to_download[i].old_alias = ref}
        IN  /\ \A p \in Range(reference_to_alias) :
                  LET ref == p[1]
                      alias == p[2]
                  IN  IF ref \in DOMAIN a2f /\ a2f[ref].local_path # None
                      THEN /\ <<a2f[ref].local_path, build_dir \o alias>> \in copies
                           /\ (build_dir \o alias) \in DOMAIN files
                           /\ Count(missing, ref) = 0 /\ Queued(ref) = {}
                      ELSE IF ref \in DOMAIN a2f
                      THEN Count(missing, ref) = 1 /\ Queued(ref) = {}
                      ELSE IF validators_url(ref)
                      THEN /\ Cardinality(Queued(ref)) = 1
                           /\ \A i \in Queued(ref) : /\ to_download[i].new_alias = alias
                                                     /\ to_download[i].url = ref
                           /\ Count(missing, ref) = 0
                      ELSE Count(missing, ref) = 1 /\ Queued(ref) = {}
            /\ Cardinality(copies) <= Len(reference_to_alias)
            /\ missing # <<>> =>
                  fpc = "failed" /\ ferror = "missing" /\ figRequests = <<>>

\* C8 witness: a call that copied one reference from a local file, found
\* another missing, and failed.
C8_Witness ==
    /\ FigClassified /\ fpc = "failed" /\ ferror = "missing"
    /\ copies # {}
    /\ Len(reference_to_alias) = 2

\* C9: after a successful call every downloaded figure is in the written
\* cache file with its URL and local path, and build/images/<basename> holds
\* a copy of it.
C9_DownloadsCachedAndCopied ==
    (fpc = "done" /\ figWrites > 0) =>
        \A fig \in Range(to_download) :
            /\ fig \in figCacheFile
            /\ fig.url # None /\ fig.local_path # None
            /\ fig.new_alias = <<"images", path_name(url_path(fig.url))>>
            /\ (build_dir \o fig.new_alias) \in DOMAIN files
            /\ files[build_dir \o fig.new_alias] = fig.url

\* C10: the cache FiguresCache.__add__ returns holds at most one FigureSpec
\* per (old_alias, new_alias) pair.
C10_OneSpecPerPair ==
    mpc = "done" =>
        \A f, g \in mergeResult :
            (f.old_alias = g.old_alias /\ f.new_alias = g.new_alias) => f = g

(***************************************************************************)
(* Claims about the markup scan and ManuscriptSection.process              *)
(***************************************************************************)
\* The section was scanned: process returned or raised.
Scanned == spc \in {"processed", "failed"}

\* The last segment of a URL's path ("" when the path has none).
LastSegment(p) == IF p = <<>> THEN "" ELSE p[Len(p)]

\* The one figure environment of the section, if the section is one.
IsFigureSection ==
    /\ Len(nodelist) = 1
    /\ nodelist[1].type = "environment" /\ nodelist[1].name = "figure"

\* C11: alias derivation depends on the reference string alone: a valid URL
\* gets images/<last segment of its path>, an existing local file
\* images/<its file name>, whatever else the project holds; and a key that is
\* neither makes the scan raise, nothing being added to the mapping.
C11_AliasDerivation ==
    Scanned =>
        /\ \A i \in 1..Len(reference_to_alias) :
              LET ref == reference_to_alias[i][1]
                  alias == reference_to_alias[i][2]
              IN  /\ Len(alias) = 2 /\ alias[1] = "images" /\ alias[2] # ""
                  /\ validators_url(ref) => alias[2] = LastSegment(url_path(ref))
                  /\ ~validators_url(ref) => ref \in DOMAIN files /\ alias[2] = ref[Len(ref)]
        /\ \A fs1, fs2 \in {fs \in FileSystems : DOMAIN fs \subseteq {<<"a.png">>}} :
              \A r \in ScanRefs :
                  (get_fig_name(fs1, r) # "invalid" /\ get_fig_name(fs2, r) # "invalid")
                      => make_alias(fs1, r) = make_alias(fs2, r)
        /\ IsFigureSection =>
              LET keys == fig_extract_keys(nodelist[1].nodelist)
              IN  (keys.error = "none"
                   /\ \E k \in keys.keys : ~validators_url(k) /\ k \notin DOMAIN files)
                      => spc = "failed" /\ serror = "ValueError" /\ reference_to_alias = <<>>

\* The section is one well-formed \cite macro.
IsCiteSection ==
    /\ Len(nodelist) = 1
    /\ nodelist[1].type = "macro" /\ nodelist[1].name = "cite"
    /\ cite_extract_keys(nodelist[1]).error = "none"

\* The identifiers a \cite{...} text holds, in order: the pieces between the
\* commas, blanks around them dropped as LaTeX drops them.
Identifiers(text) ==
    LET pieces == split(SubSeq(text, 3, Len(text) - 1), ",")
    IN  [i \in 1..Len(pieces) |-> strip(pieces[i])]

\* C12: after process, where the section cites a DOI-marked key the processed
\* text holds the stripped key reconcile_citations looks up and stores, and
\* raw_content is what was read.
C12_MarkerStrippedInText ==
    (spc = "processed" /\ IsCiteSection) =>
        /\ raw_content = latex_verbatim(nodelist)
        /\ Len(Identifiers(fmt_content[1])) = Len(Identifiers(raw_content))
        /\ \A i \in 1..Len(Identifiers(raw_content)) :
              LET key == Identifiers(raw_content)[i]
              IN  DoiMarked(key) => Identifiers(fmt_content[1])[i] = stripped_of(key)

\* C13: for a \cite macro whose key argument is one text run of N >= 1 keys
\* separated by commas, with or without blanks around them, extraction
\* yields exactly the set of those keys.
C13_CiteKeysExtracted ==
    (Scanned /\ IsCiteSection) =>
        \A q \in CiteArgs(MaxCiteKeys) :
            nodelist = <<CiteNode(join_pieces(q))>> =>
                /\ spc = "processed"
                /\ unique_keys = {q[i].key : i \in 1..Len(q)}

\* C13 witness: \cite{ a , a } was scanned and left the one key "a".
C13_Witness ==
    /\ spc = "processed"
    /\ raw_content = <<"\\cite", "{", " ", "a", " ", ",", " ", "a", " ", "}">>
    /\ unique_keys = {<<"a">>}

\* The node lists extraction reaches from a figure's children by passing
\* through subfigure environments only, found level by level.
SubfigureLists(lists) ==
    lists \cup {n.nodelist : n \in {m \in UNION {Range(l) : l \in lists} :
                                      m.type = "environment" /\ m.name = "subfigure"}}

\* The \includegraphics macros of the figure and of its nested subfigures.
FigureIncludes(fig_node) ==
    LET reached == SubfigureLists(SubfigureLists(SubfigureLists({fig_node.nodelist})))
    IN  {n \in UNION {Range(l) : l \in reached} :
            n.type = "macro" /\ n.name = "includegraphics"}

\* The key a well-formed \includegraphics macro holds.
KeyOf(n) == n.nodeargd[1].argnlist[2][1].nodelist[1].chars

WellFormedInclude(n) ==
    /\ n.nodeargd # None
    /\ Len(n.nodeargd[1].argnlist[2][1].nodelist) = 1

\* C14: for a figure environment whose \includegraphics macros are well
\* formed, extract_keys returns exactly the keys of the macros of the
\* environment and of its subfigure environments at any depth, each
\* verbatim.
C14_FigureKeysExtracted ==
    (Scanned /\ IsFigureSection) =>
        LET includes == FigureIncludes(nodelist[1])
        IN  (\A n \in includes : WellFormedInclude(n)) =>
                /\ fig_extract_keys(nodelist[1].nodelist)
                      = Returns({KeyOf(n) : n \in includes})
                /\ spc = "processed" =>
                      {reference_to_alias[i][1] : i \in 1..Len(reference_to_alias)}
                          = {KeyOf(n) : n \in includes}

\* C14 witness: a figure with one macro of its own and one inside a
\* subfigure inside a subfigure, both taken.
C14_Witness ==
    /\ spc = "processed" /\ IsFigureSection
    /\ Len(nodelist[1].nodelist) = 2
    /\ nodelist[1].nodelist[1].type = "macro"
    /\ nodelist[1].nodelist[2].type = "environment"
    /\ nodelist[1].nodelist[2].name = "subfigure"
    /\ Len(nodelist[1].nodelist[2].nodelist) = 1
    /\ nodelist[1].nodelist[2].nodelist[1].type = "environment"
    /\ nodelist[1].nodelist[2].nodelist[1].name = "subfigure"
    /\ Len(reference_to_alias) = 2

\* A macro is malformed: no argument data, no braced argument in its spec,
\* a number of arguments other than the spec's, or a key group that does not
\* hold exactly one node.
Malformed(n) ==
    \/ n.nodeargd = None
    \/ ~Contains(n.nodeargd[1].argspec, "{")
    \/ Len(n.nodeargd[1].argspec) # Len(n.nodeargd[1].argnlist)
    \/ Len(n.nodeargd[1].argnlist[Len(n.nodeargd[1].argspec)][1].nodelist) # 1

\* The \cite macros at the top level of the section.
TopCites == {n \in Range(nodelist) : n.type = "macro" /\ n.name = "cite"}

\* The \includegraphics macros extraction reaches in the section's figures.
TopIncludes ==
    UNION {FigureIncludes(f) : f \in {n \in Range(nodelist) :
                                        n.type = "environment" /\ n.name = "figure"}}

\* C15: a malformed \cite or \includegraphics macro handed to extraction
\* makes the scan raise; it is not skipped, and it adds no key to the
\* observed keys or to the figure mapping.
C15_MalformedMacroRaises ==
    (Scanned /\ \E n \in TopCites \cup TopIncludes : Malformed(n)) =>
        /\ spc = "failed" /\ serror \in {"ValueError", "AttributeError"}
        /\ fmt_content = None
        /\ unique_keys \subseteq
              UNION {cite_extract_keys(n).keys : n \in {c \in TopCites : ~Malformed(c)}}
        /\ \A i \in 1..Len(reference_to_alias) :
              reference_to_alias[i][1] \in
                  {KeyOf(n) : n \in {g \in TopIncludes : ~Malformed(g)}}

\* C15 witness: a figure whose subfigure holds \includegraphics{} was
\* scanned and the scan raised ValueError.
C15_Witness ==
    /\ spc = "failed" /\ serror = "ValueError"
    /\ IsFigureSection
    /\ \E n \in TopIncludes : n.nodeargd # None /\ Malformed(n)
    /\ \E e \in Range(nodelist[1].nodelist) :
          /\ e.type = "environment" /\ e.name = "subfigure"
          /\ \E n \in Range(e.nodelist) : n.type = "macro" /\ Malformed(n)

C17_FetchFailureReported ==
    /\ (pc = "failed" /\ Len(requests) > Len(results)) =>
          error = "fetch" /\ fetch_error_names = requests[Len(requests)]
    /\ (fpc = "failed" /\ Len(figRequests) > fetched) =>
          ferror = "fetch" /\ fetch_error_names = figRequests[Len(figRequests)]
    /\ error = "rate" => Len(requests) = Len(results)
    /\ ferror = "rate" => Len(figRequests) = fetched

(***************************************************************************)
(* Claims about the template and the section files                         *)
(***************************************************************************)
\* MainTemplate.process was called.
TemplateProcessed == tpc \in {"processed", "process_failed", "written", "write_failed"}

\* C18: process succeeds exactly when the slot lines found are @metadata,
\* @abstract, @main, @supplement in that order; otherwise it raises,
\* fmt_content stays None and write cannot write main.tex.
C18_TemplateSlotsExact ==
    TemplateProcessed =>
        /\ templates = expected_templates =>
              tpc \in {"processed", "written"} /\ tpl_fmt # None
        /\ templates # expected_templates =>
              /\ tpc \in {"process_failed", "write_failed"}
              /\ tpl_fmt = None
              /\ main_tex \notin build_written
              /\ terror = "ValueError"

\* C18 witness: a template with the four slots, @supplement before @main,
\* was refused and write raised.
C18_Witness ==
    /\ tpc = "write_failed"
    /\ templates = <<(<<"@", "metadata">>), (<<"@", "abstract">>),
                     (<<"@", "supplement">>), (<<"@", "main">>)>>
    /\ tpl_fmt = None

\* text holds sub as a run of consecutive tokens.
HasRun(text, sub) ==
    \E i \in 1..(Len(text) - Len(sub) + 1) : SubSeq(text, i, i + Len(sub) - 1) = sub

\* The number of tokens of text equal to tok.
Occurrences(text, tok) == Cardinality({i \in 1..Len(text) : text[i] = tok})

\* build_latex assembled the template of the project.
Assembled == tpc \in {"processed", "written"} /\ content_dir # {}

\* build_latex was called with the working directory as root_dir, as the
\* command line calls it.
CalledFromRoot == cwd_supplement = (supplement_tex \in content_dir)

\* The names of S in ascending order of their numeric prefixes.
RECURSIVE sorted_numerically(_)
sorted_numerically(S) ==
    IF S = {} THEN <<>>
    ELSE LET m == CHOOSE x \in S : \A y \in S \ {x} :
                      \/ Len(x) < Len(y)
                      \/ Len(x) = Len(y) /\ PathLess(x, y)
         IN  <<m>> \o sorted_numerically(S \ {m})

\* C19: the main slot holds one \input per numbered section file, in
\* ascending order of the numeric prefixes, and none for abstract.tex or
\* supplement.tex, which are written to build all the same.
C19_MainSlotNumericOrder ==
    (Assembled /\ CalledFromRoot) =>
        LET numbered == glob_numbered(content_dir)
        IN  /\ HasRun(tpl_fmt[1], main_content(sorted_numerically(numbered)))
            /\ Occurrences(tpl_fmt[1], "\\input{") = Cardinality(numbered)
            /\ (content_dir \cap {abstract_tex, supplement_tex}) \subseteq build_written

\* C20: the supplement slot holds the heading and \input{supplement.tex}
\* exactly when root_dir/content holds supplement.tex, that is exactly when
\* supplement.tex was written to build.
C20_SupplementSlot ==
    Assembled =>
        /\ HasRun(tpl_fmt[1], supp_text) <=> supplement_tex \in content_dir
        /\ supplement_tex \in content_dir <=> supplement_tex \in build_written

(***************************************************************************)
(* Claims about MainTemplate.format_metadata                               *)
(***************************************************************************)
\* The affiliations of the authors of q, in the order they are listed.
RECURSIVE Listed(_)
Listed(q) ==
    IF q = <<>> THEN <<>>
    ELSE (IF Head(q).affiliations = None THEN <<>> ELSE Head(q).affiliations[1])
         \o Listed(Tail(q))

\* The rank of affiliation a among the distinct affiliations of listed, by
\* first appearance.
FirstSeenIndex(a, listed) ==
    LET first == CHOOSE i \in 1..Len(listed) :
                     listed[i] = a /\ \A j \in 1..(i - 1) : listed[j] # a
    IN  Cardinality({listed[j] : j \in 1..(first - 1)}) + 1

\* The lines of the formatted metadata that begin with the token head.
MetaLines(head) ==
    SelectSeq(split(meta_output[1], "\n"), LAMBDA l : l # <<>> /\ Head(l) = head)

\* The tokens of an author declaration between "[" and "]", commas left out.
Bracketed(line) ==
    LET open == CHOOSE i \in 1..Len(line) : line[i] = "["
        close == CHOOSE i \in 1..Len(line) : line[i] = "]"
    IN  SelectSeq(SubSeq(line, open + 1, close - 1), LAMBDA t : t # ",")

\* C21: the distinct affiliations get the indices 1..n in first-seen order,
\* each author declaration lists exactly its author's indices, and the
\* output holds one declaration per author in manuscript order followed by
\* one per distinct affiliation in index order.
C21_AffiliationIndices ==
    mdpc = "formatted" =>
        LET listed == Listed(authors)
            n == Cardinality(Range(listed))
            text == split(meta_output[1], "\n")
            author_decls == MetaLines("\\author")
            affil_decls == MetaLines("\\affil[")
        IN  /\ Len(meta_affils) = n
            /\ \A i \in 1..Len(meta_affils) :
                  /\ meta_affils[i][2] = i
                  /\ meta_affils[i][1] \in Range(listed)
                  /\ FirstSeenIndex(meta_affils[i][1], listed) = i
            /\ Len(author_decls) = Len(authors)
            /\ \A k \in 1..Len(authors) :
                  IF authors[k].affiliations = None
                  THEN ~Contains(author_decls[k], "[")
                  ELSE Bracketed(author_decls[k])
                       = [i \in 1..Len(authors[k].affiliations[1]) |->
                             str_int(FirstSeenIndex(authors[k].affiliations[1][i], listed))]
            /\ Len(affil_decls) = n
            /\ \A i \in 1..Len(affil_decls) :
                  affil_decls[i] = <<"\\affil[", str_int(i), "]{", meta_affils[i][1], "}">>
            /\ \A i, j \in 1..Len(text) :
                  (/\ text[i] # <<>> /\ Head(text[i]) = "\\affil["
                   /\ text[j] # <<>> /\ Head(text[j]) = "\\author") => j < i

\* Two authors share their two affiliations and list them in opposite orders.
C21_Witness ==
    /\ mdpc = "formatted"
    /\ Len(authors) = 2
    /\ authors[1].affiliations = Some(<<"B", "A">>)
    /\ authors[2].affiliations = Some(<<"A", "B">>)
    /\ meta_affils = <<(<<"B", 1>>), (<<"A", 2>>)>>

\* Every prefix of line has at least as many "{" as "}", and line as many.
Balanced(line) ==
    LET depth(i) == Cardinality({j \in 1..i : line[j] = "{"})
                    - Cardinality({j \in 1..i : line[j] = "}"})
    IN  (\A i \in 1..Len(line) : depth(i) >= 0) /\ depth(Len(line)) = 0

\* C22: an ORCID gives the linked icon before the name; a corresponding
\* author gets the footnote with the email, or the generic one without an
\* email; an author who is not corresponding gets no footnote; the braces
\* of the declaration balance.
C22_AuthorDeclaration ==
    mdpc = "formatted" =>
        \A k \in 1..Len(authors) :
            LET author == authors[k]
                decl == MetaLines("\\author")[k]
                name == str_replace(author.name, <<" ">>, <<"~">>)
                is_corresponding == author.corresponding = Some(TRUE)
            IN  /\ IF author.orcid # None
                   THEN HasRun(decl, <<"\\href", "{", "https://orcid.org/">> \o author.orcid[1]
                                     \o <<"}", "{", "\\usebox", "{", "\\orcid", "}",
                                          "\\hspace", "{", "1mm", "}", "}">> \o name)
                   ELSE ~Contains(decl, "\\href") /\ HasRun(decl, <<"{">> \o name)
                /\ (is_corresponding /\ author.email # None) =>
                      HasRun(decl, <<"\\thanks", "{", "\\texttt", "{",
                                     "Correspondence may be addressed to ">>
                                   \o author.email[1] \o <<"}", "}">>)
                /\ (is_corresponding /\ author.email = None) =>
                      HasRun(decl, <<"\\thanks", "{", "\\texttt", "{",
                                     "Corresponding author", "}", "}">>)
                /\ ~is_corresponding => ~Contains(decl, "\\thanks")
                /\ Balanced(decl)

\* A corresponding author with an ORCID, an email and a name of two words
\* has been formatted.
C22_Witness ==
    /\ mdpc = "formatted"
    /\ Len(authors) = 1
    /\ authors[1].email # None
    /\ authors[1].orcid # None
    /\ authors[1].corresponding = Some(TRUE)
    /\ Contains(authors[1].name, " ")
    /\ Contains(meta_output[1], "\\thanks")

(***************************************************************************)
(* Claims about the order of build_latex                                   *)
(***************************************************************************)
\* The calls of build_log whose operation is op, as positions.
CallsOf(op) == {i \in 1..Len(build_log) : build_log[i].op = op}

\* The section files in the order the claim gives: the abstract, the
\* numbered files in filename sort order, the supplement.
ScanOrder ==
    (IF abstract_tex \in content_dir THEN <<abstract_tex>> ELSE <<>>)
    \o sorted_paths(glob_numbered(content_dir))
    \o (IF supplement_tex \in content_dir THEN <<supplement_tex>> ELSE <<>>)

C24_CacheFileOnlyOnSuccess ==
    [][/\ bibCacheFile' # bibCacheFile =>
             /\ pc = "pulling" /\ Len(results) = Len(references_to_pull)
             /\ pc' = "done" /\ error' = "none"
       /\ pc' = "failed" =>
             /\ bibCacheFile' = bibCacheFile /\ bibWrites' = 0
             /\ \A i \in 1..Len(results') : results'[i].key \notin entries_keys(bibCacheFile')
       /\ figCacheFile' # figCacheFile =>
             /\ fpc = "downloading" /\ fetched = Len(to_download)
             /\ fpc' = "done" /\ ferror' = "none"
       /\ fpc' = "failed" =>
             /\ figCacheFile' = figCacheFile /\ figWrites' = 0
             /\ \A i \in 1..fetched' :
                   \A f \in figCacheFile' : f.old_alias # to_download'[i].old_alias
      ]_vars

\* A reconcile_citations failed after it had fetched an entry.
C24_Witness ==
    /\ pc = "failed" /\ error \in {"fetch", "rate"}
    /\ Len(results) >= 1

(***************************************************************************)
(* Claims about local images                                               *)
(***************************************************************************)
\* The file of the content images directory that the reference ref names by
\* its filename relative to that directory.
ContentImage(ref) == manual_path \o ref

\* C25: a reference naming a file of content/images by its filename relative
\* to that directory passes the alias derivation of the scan, and
\* reconcile_figures copies that file to build/images/<filename> and sends
\* no request for it.
C25_LocalImageResolved ==
    /\ (/\ Scanned /\ IsFigureSection
        /\ fig_extract_keys(nodelist[1].nodelist) = Returns({<<"a.png">>})
        /\ ContentImage(<<"a.png">>) \in DOMAIN files) =>
           /\ spc = "processed"
           /\ reference_to_alias = <<(<<(<<"a.png">>), (<<"images", "a.png">>)>>)>>
    /\ FigClassified =>
           \A p \in Range(reference_to_alias) :
               (~validators_url(p[1]) /\ ContentImage(p[1]) \in DOMAIN files) =>
                   /\ <<ContentImage(p[1]), build_dir \o <<"images">> \o p[1]>> \in copies
                   /\ \A i \in 1..Len(to_download) : to_download[i].old_alias # p[1]
                   /\ \A i \in 1..Len(missing) : missing[i] # p[1]

(***************************************************************************)
(* Claims about what ManuscriptSection.process observes and rewrites       *)
(***************************************************************************)
\* The nodes of a node list and of the node lists below them, at any depth.
RECURSIVE NodesBelow(_)
NodesBelow(nodes) ==
    IF nodes = <<>> THEN {}
    ELSE {Head(nodes)} \cup NodesBelow(Head(nodes).nodelist) \cup NodesBelow(Tail(nodes))

\* C26: after a section is processed the observed keys hold every key of
\* every \cite macro of the section and the figure mapping every key of every
\* figure environment of it, at the top level or nested in an environment.
C26_NestedMacrosObserved ==
    spc = "processed" =>
        /\ \A n \in NodesBelow(nodelist) :
              (n.type = "macro" /\ n.name = "cite") =>
                  cite_extract_keys(n).keys \subseteq unique_keys
        /\ \A n \in NodesBelow(nodelist) :
              (n.type = "environment" /\ n.name = "figure") =>
                  fig_extract_keys(n.nodelist).keys
                      \subseteq {reference_to_alias[i][1] : i \in 1..Len(reference_to_alias)}

\* The references the scan has observed.
ObservedRefs == {reference_to_alias[i][1] : i \in 1..Len(reference_to_alias)}

\* The file name a reference ends in ("" for a URL without a path).
Basename(ref) == IF validators_url(ref) THEN LastSegment(url_path(ref)) ELSE LastSegment(ref)

\* The text of a node list with the key of every \includegraphics macro
\* replaced by images/<basename> and nothing else touched.
RECURSIVE Rewritten(_)
Rewritten(nodes) ==
    IF nodes = <<>> THEN <<>>
    ELSE LET node == Head(nodes)
             text == IF /\ node.type = "macro" /\ node.name = "includegraphics"
                        /\ WellFormedInclude(node)
                     THEN <<"\\includegraphics", "{">>
                          \o path_str(<<"images", Basename(KeyOf(node))>>) \o <<"}">>
                     ELSE IF node.type = "environment"
                     THEN <<"\\begin{", node.name, "}">> \o Rewritten(node.nodelist)
                          \o <<"\\end{", node.name, "}">>
                     ELSE node.src
         IN  text \o Rewritten(Tail(nodes))

\* C27: in a processed section every occurrence of an observed figure
\* reference reads images/<basename> and the rest of the text is as it was,
\* whatever the order of the mapping and also when one reference is part of
\* another or of an alias.  Stated for a section that is one figure
\* environment all of whose references were observed and end in a file name.
C27_FigureRefsRewritten ==
    (spc = "processed" /\ IsFigureSection
     /\ includegraphics_below(nodelist) = ObservedRefs
     /\ \A ref \in ObservedRefs : Basename(ref) # "") =>
        fmt_content = Some(Rewritten(nodelist))

(***************************************************************************)
(* Claims about what MainTemplate.process leaves alone                     *)
(***************************************************************************)
\* What a line of the template is to read after process: the text of its
\* slot if the line is a slot line, the line itself if it is not.
SlotFilled(line) ==
    IF line = <<"@", "metadata">> THEN format_metadata(TheMetadata)
    ELSE IF line = <<"@", "abstract">> THEN <<"\\input{abstract.tex}">>
    ELSE IF line = <<"@", "main">> THEN main_content(built_main_files)
    ELSE IF line = <<"@", "supplement">> THEN (IF cwd_supplement THEN supp_text ELSE <<>>)
    ELSE line

\* C28: process replaces the four slot lines, each once, and every other
\* character of the template passes through, also when boilerplate holds a
\* slot marker as part of a line.
C28_OnlySlotLinesReplaced ==
    tpc \in {"processed", "written"} =>
        LET lines == split(tpl_raw, "\n")
        IN  tpl_fmt = Some(join_lines([i \in 1..Len(lines) |-> SlotFilled(lines[i])]))

(***************************************************************************)
(* Claims about figures that share a basename                              *)
(***************************************************************************)
\* C29: after a successful reconcile_figures two distinct observed
\* references, at least one of them a URL, do not have the same alias (and so
\* the same file of build/images), and two downloaded figures do not have the
\* same path in the download cache.
C29_DistinctFiguresDistinctFiles ==
    fpc = "done" =>
        /\ \A i, j \in 1..Len(reference_to_alias) :
              (i # j /\ (validators_url(reference_to_alias[i][1])
                         \/ validators_url(reference_to_alias[j][1]))) =>
                  reference_to_alias[i][2] # reference_to_alias[j][2]
        /\ \A i, j \in 1..Len(to_download) :
              i # j => to_download[i].local_path # to_download[j].local_path

(***************************************************************************)
(* Claims about the files main.tex transcludes                             *)
(***************************************************************************)
\* The file names the \input statements of text name.
Transcluded(text) ==
    {abstract_tex : i \in {j \in 1..Len(text) : text[j] = "\\input{abstract.tex}"}}
    \cup {supplement_tex : i \in {j \in 1..Len(text) : text[j] = "\\input{supplement.tex}"}}
    \cup {LET close == CHOOSE k \in (i + 1)..Len(text) :
                           /\ text[k] = "}"
                           /\ \A m \in (i + 1)..(k - 1) : text[m] # "}"
          IN  SubSeq(text, i + 1, close - 1) :
             i \in {j \in 1..Len(text) : text[j] = "\\input{"}}

\* C30: every file the assembled main.tex transcludes was written to the
\* build directory by the same build; abstract.tex is not transcluded when
\* the content directory has no abstract.tex.
C30_TranscludedFilesWritten ==
    (Assembled /\ CalledFromRoot) =>
        /\ Transcluded(tpl_fmt[1]) \subseteq build_written
        /\ abstract_tex \in Transcluded(tpl_fmt[1]) => abstract_tex \in content_dir

====
